---------------------------- MODULE Spec2Model ----------------------------
(***************************************************************************)
(* A model of the Utah Pollinator Path scoring engine:                     *)
(*   - src/core/engine.py : HabitatGrade, Location, CacheManager and       *)
(*     PollinatorEngine (registries, fetch_data, score, batch_score);      *)
(*   - src/scoring_v2.py  : the evidence-based property scorer.            *)
(*                                                                         *)
(* Time is counted in whole hours (the unit of ttl_hours).  Points are     *)
(* counted in hundredths of a point, so that 0.5 and 0.35 are exact.       *)
(***************************************************************************)
EXTENDS Integers, Sequences, FiniteSets, TLC

VARIABLES
    ttl_hours,      \* CacheManager.ttl_hours
    max_entries,    \* CacheManager.max_entries
    cache,          \* CacheManager._cache: the dict, as its entries in insertion order
    stats,          \* CacheManager.stats: hits, misses, evictions
    now,            \* the clock read by datetime.utcnow()
    last,           \* the most recent call or fetch: its arguments and outcome
    scores,         \* two scores handed to the grade lookups
    grades,         \* the grades the lookups returned for them
    prop,           \* the PropertyData handed to score_property
    breakdown,      \* the ScoreBreakdown it returned
    _sources,       \* PollinatorEngine._sources: the dict, in insertion order
    _algorithms,    \* PollinatorEngine._algorithms: the dict, in insertion order
    calls,          \* the call each task is in: its frame
    coords,         \* the arguments of two Location constructions
    locs            \* the two Locations constructed from them

cacheVars == <<ttl_hours, max_entries, cache, stats, now>>
gradeVars == <<scores, grades>>
scoreVars == <<prop, breakdown>>
engineVars == <<_sources, _algorithms, calls>>
locationVars == <<coords, locs>>
vars == <<cacheVars, last, gradeVars, scoreVars, engineVars, locationVars>>

(***************************************************************************)
(* Bounds of the model.                                                    *)
(***************************************************************************)
MaxEntries == 2     \* largest configured max_entries
MaxTime == 2        \* the clock stops here
MaxCount == 1       \* cap of the lookup counters (hits + misses) and of evictions
MaxSame == 10       \* longest run of one plant in an inventory
MaxOther == 4       \* longest run of a second plant after it
MaxNeighbors == 6   \* largest neighbors_in_program
MaxPriorLookups == 0    \* an engine call begins while the cache has seen no more lookups
MaxReads == 2       \* lookups of a cache that is read again and again
MaxOverlapLookups == 1      \* lookups made before the last call of overlapping calls begins
MaxFetchLookups == 1    \* the same, when fetch_data is the only call

TtlChoices == {0, 2}        \* configured ttl_hours

NoneVal == "None"   \* Python's None

(***************************************************************************)
(* Location (engine.py).  Only grid_hash is read by the cache.             *)
(***************************************************************************)
GridHashes == {"40.666_-111.897", "40.7_-111.9"}
Locations == [grid_hash : GridHashes]

CacheSources == {"inat", "gbif"}
Payloads == {"p1", "p2"}

\* The (source, location) pairs the cache is called with: three keys.
CacheArgs ==
    {<<"inat", [grid_hash |-> "40.666_-111.897"]>>,
     <<"inat", [grid_hash |-> "40.7_-111.9"]>>,
     <<"gbif", [grid_hash |-> "40.666_-111.897"]>>}

\* The (source, location, data) triples set is called with: every key, and
\* one key with two payloads.
CacheWrites ==
    {<<"inat", [grid_hash |-> "40.666_-111.897"], "p1">>,
     <<"inat", [grid_hash |-> "40.666_-111.897"], "p2">>,
     <<"inat", [grid_hash |-> "40.7_-111.9"], "p1">>,
     <<"gbif", [grid_hash |-> "40.666_-111.897"], "p2">>}

(***************************************************************************)
(* Location.__post_init__ and _compute_grid_hash (engine.py 43-59).  A     *)
(* coordinate is a float given in ten-thousandths of a degree, never       *)
(* halfway between two thousandths.  round(x, 3) gives a float: its sign   *)
(* (a float zero keeps the sign of what was rounded) and its magnitude in  *)
(* thousandths.  The f-string formats a float as repr does: the integer    *)
(* part, a point, and the decimals without trailing zeros, at least one.   *)
(***************************************************************************)
Digit(d) == SubSeq("0123456789", d + 1, d + 1)

RECURSIVE NatStr(_)
NatStr(n) == IF n < 10 THEN Digit(n) ELSE NatStr(n \div 10) \o Digit(n % 10)

\* The decimals of a float with f thousandths after the point.
DecimalsStr(f) ==
    IF f % 100 = 0 THEN Digit(f \div 100)
    ELSE IF f % 10 = 0 THEN Digit(f \div 100) \o Digit((f \div 10) % 10)
    ELSE Digit(f \div 100) \o Digit((f \div 10) % 10) \o Digit(f % 10)

\* repr of a float of whole thousandths.
FloatRepr(x) ==
    (IF x.neg THEN "-" ELSE "") \o NatStr(x.mag \div 1000) \o "." \o DecimalsStr(x.mag % 1000)

\* round(v, 3) for v in ten-thousandths.
Round3(v) ==
    [neg |-> v < 0, mag |-> ((IF v < 0 THEN 0 - v ELSE v) + 5) \div 10]

_compute_grid_hash(lat, lng) ==
    LET grid_lat == Round3(lat)
        grid_lng == Round3(lng)
    IN  FloatRepr(grid_lat) \o "_" \o FloatRepr(grid_lng)

\* Location(lat, lng, grid_hash = ...) after __post_init__.
Location(lat, lng, grid_hash) ==
    [lat |-> lat, lng |-> lng,
     grid_hash |-> IF grid_hash = "" THEN _compute_grid_hash(lat, lng) ELSE grid_hash]

(***************************************************************************)
(* CacheManager (engine.py 140-179).  The dict _cache is a sequence of     *)
(* entries [key, data, timestamp] in insertion order: that is the order    *)
(* min() scans it in, and an overwritten key keeps its place.              *)
(***************************************************************************)
_make_key(source, grid_hash) == source \o ":" \o grid_hash

\* Position of key in the dict, 0 when absent.
KeyIndex(c, key) ==
    IF \E i \in 1..Len(c) : c[i].key = key
    THEN CHOOSE i \in 1..Len(c) : c[i].key = key
    ELSE 0

\* del d[key] for the entry at position i.
DelAt(c, i) == SubSeq(c, 1, i - 1) \o SubSeq(c, i + 1, Len(c))

\* d[key] = entry: replace in place when present, append otherwise.
Store(c, entry) ==
    LET i == KeyIndex(c, entry.key)
    IN  IF i = 0 THEN Append(c, entry) ELSE [c EXCEPT ![i] = entry]

\* Mutant of OldestIndex: the entry inserted last is chosen for eviction.
OldestIndex_Last(c) == Len(c)

\* min(keys, key = timestamp): the first entry, in iteration order, whose
\* timestamp no other entry is below.
OldestIndex(c) ==
    CHOOSE i \in 1..Len(c) :
        /\ \A j \in 1..Len(c) : c[i].timestamp <= c[j].timestamp
        /\ \A j \in 1..(i - 1) : c[j].timestamp > c[i].timestamp

\* Mutant of CacheGet: an entry of age exactly ttl still counts as fresh.
CacheGet_InclusiveTtl(c, st, ttl, t, source, location) ==
    LET key == _make_key(source, location.grid_hash)
        i == KeyIndex(c, key)
    IN  IF i # 0 /\ t - c[i].timestamp <= ttl
        THEN [cache |-> c, stats |-> [st EXCEPT !.hits = @ + 1], value |-> c[i].data]
        ELSE [cache |-> IF i # 0 THEN DelAt(c, i) ELSE c,
              stats |-> [st EXCEPT !.misses = @ + 1],
              value |-> NoneVal]

\* Mutant of CacheGet: a hit refreshes the entry's timestamp.
CacheGet_TouchOnHit(c, st, ttl, t, source, location) ==
    LET key == _make_key(source, location.grid_hash)
        i == KeyIndex(c, key)
    IN  IF i # 0 /\ t - c[i].timestamp < ttl
        THEN [cache |-> [c EXCEPT ![i].timestamp = t],
              stats |-> [st EXCEPT !.hits = @ + 1], value |-> c[i].data]
        ELSE [cache |-> IF i # 0 THEN DelAt(c, i) ELSE c,
              stats |-> [st EXCEPT !.misses = @ + 1],
              value |-> NoneVal]

\* CacheManager.get: the store, the counters and the value returned.
CacheGet(c, st, ttl, t, source, location) ==
    LET key == _make_key(source, location.grid_hash)
        i == KeyIndex(c, key)
    IN  IF i # 0
        THEN LET entry == c[i]
                 age == t - entry.timestamp
             IN  IF age < ttl
                 THEN [cache |-> c,
                       stats |-> [st EXCEPT !.hits = @ + 1],
                       value |-> entry.data]
                 ELSE [cache |-> DelAt(c, i),
                       stats |-> [st EXCEPT !.misses = @ + 1],
                       value |-> NoneVal]
        ELSE [cache |-> c,
              stats |-> [st EXCEPT !.misses = @ + 1],
              value |-> NoneVal]

\* Mutant of CacheSet: capacity is checked only when the key is new, so an
\* overwrite never evicts.
CacheSet_NoEvictOnOverwrite(c, st, mx, t, source, location, data) ==
    LET key == _make_key(source, location.grid_hash)
        entry == [key |-> key, data |-> data, timestamp |-> t]
        full == Len(c) >= mx /\ KeyIndex(c, key) = 0
    IN  IF full /\ c = <<>>
        THEN [cache |-> c, stats |-> st, raised |-> "ValueError"]
        ELSE IF full
        THEN [cache |-> Store(DelAt(c, 1), entry),
              stats |-> [st EXCEPT !.evictions = @ + 1],
              raised |-> NoneVal]
        ELSE [cache |-> Store(c, entry), stats |-> st, raised |-> NoneVal]

\* Mutant of CacheSet: an entry is evicted only when the store holds more
\* than max_entries entries.
CacheSet_EvictAbove(c, st, mx, t, source, location, data) ==
    LET full == Len(c) > mx
        key == _make_key(source, location.grid_hash)
        entry == [key |-> key, data |-> data, timestamp |-> t]
    IN  IF full
        THEN [cache |-> Store(DelAt(c, OldestIndex(c)), entry),
              stats |-> [st EXCEPT !.evictions = @ + 1],
              raised |-> NoneVal]
        ELSE [cache |-> Store(c, entry), stats |-> st, raised |-> NoneVal]

\* Mutant of CacheSet: a key that is in the store keeps its entry.
CacheSet_KeepFirst(c, st, mx, t, source, location, data) ==
    LET full == Len(c) >= mx
        key == _make_key(source, location.grid_hash)
        entry == [key |-> key, data |-> data, timestamp |-> t]
    IN  IF KeyIndex(c, key) # 0
        THEN [cache |-> c, stats |-> st, raised |-> NoneVal]
        ELSE IF full /\ c = <<>>
        THEN [cache |-> c, stats |-> st, raised |-> "ValueError"]
        ELSE IF full
        THEN [cache |-> Store(DelAt(c, OldestIndex(c)), entry),
              stats |-> [st EXCEPT !.evictions = @ + 1],
              raised |-> NoneVal]
        ELSE [cache |-> Store(c, entry), stats |-> st, raised |-> NoneVal]

\* CacheManager.set: the store and the counters, or the exception raised
\* (min() of an empty sequence raises ValueError before anything is changed).
CacheSet(c, st, mx, t, source, location, data) ==
    LET full == Len(c) >= mx
        key == _make_key(source, location.grid_hash)
        entry == [key |-> key, data |-> data, timestamp |-> t]
    IN  IF full /\ c = <<>>
        THEN [cache |-> c, stats |-> st, raised |-> "ValueError"]
        ELSE IF full
        THEN [cache |-> Store(DelAt(c, OldestIndex(c)), entry),
              stats |-> [st EXCEPT !.evictions = @ + 1],
              raised |-> NoneVal]
        ELSE [cache |-> Store(c, entry), stats |-> st, raised |-> NoneVal]

\* Mutant of CacheClear: the entry written last stays.
CacheClear_KeepLast(c) == IF c = <<>> THEN c ELSE <<c[Len(c)]>>

\* CacheManager.clear
CacheClear(c) == <<>>

\* CacheManager.get_stats; hit_rate_percent in tenths of a percent, the
\* resolution round(hit_rate, 1) keeps (rounded half down here: no lookup
\* count within the bounds lands on a half).
CacheGetStats(c, st) ==
    LET total == st.hits + st.misses
        hit_rate10 == IF total > 0 THEN (st.hits * 2000 + total) \div (2 * total) ELSE 0
    IN  [hits |-> st.hits, misses |-> st.misses, evictions |-> st.evictions,
         entries |-> Len(c), hit_rate_percent10 |-> hit_rate10]

(***************************************************************************)
(* HabitatGrade (engine.py 21-40) and get_grade (scoring_v2.py 483-496).   *)
(* Scores are in hundredths of a point.                                    *)
(***************************************************************************)
Pt(x) == x * 100

Min(a, b) == IF a <= b THEN a ELSE b
Max(a, b) == IF a >= b THEN a ELSE b

\* The enum's members in definition order, the order `for grade in cls` visits.
HabitatGrade ==
    << [letter |-> "A+", min_score |-> 90],
       [letter |-> "A",  min_score |-> 80],
       [letter |-> "B",  min_score |-> 70],
       [letter |-> "C",  min_score |-> 60],
       [letter |-> "D",  min_score |-> 50],
       [letter |-> "F",  min_score |-> 0] >>

\* Mutant of from_score: a score equal to a tier's minimum falls below it.
from_score_Strict(score) ==
    IF \E i \in 1..Len(HabitatGrade) : score > Pt(HabitatGrade[i].min_score)
    THEN HabitatGrade[CHOOSE i \in 1..Len(HabitatGrade) :
            /\ score > Pt(HabitatGrade[i].min_score)
            /\ \A j \in 1..(i - 1) : ~(score > Pt(HabitatGrade[j].min_score))].letter
    ELSE "F"

\* HabitatGrade.from_score: the first member whose min_score the score
\* reaches, F after the loop.
from_score(score) ==
    IF \E i \in 1..Len(HabitatGrade) : score >= Pt(HabitatGrade[i].min_score)
    THEN HabitatGrade[CHOOSE i \in 1..Len(HabitatGrade) :
            /\ score >= Pt(HabitatGrade[i].min_score)
            /\ \A j \in 1..(i - 1) : ~(score >= Pt(HabitatGrade[j].min_score))].letter
    ELSE "F"

\* get_grade: the if/elif chain.
get_grade(score) ==
    IF score >= Pt(90) THEN "A+"
    ELSE IF score >= Pt(80) THEN "A"
    ELSE IF score >= Pt(70) THEN "B"
    ELSE IF score >= Pt(60) THEN "C"
    ELSE IF score >= Pt(50) THEN "D"
    ELSE "F"

\* get_confidence
get_confidence(completeness) ==
    IF completeness >= 70 THEN "high"
    ELSE IF completeness >= 40 THEN "medium"
    ELSE "low"

(***************************************************************************)
(* The property scorer (scoring_v2.py).  A PlantInventory is a record      *)
(* [count, bloom_seasons, is_native, is_milkweed]; bloom_seasons is the    *)
(* set of the list's members, all the code asks of it.                     *)
(***************************************************************************)
NativeCount(plants) == Cardinality({i \in 1..Len(plants) : plants[i].is_native})

RECURSIVE MilkweedCount(_)
MilkweedCount(plants) ==
    IF plants = <<>> THEN 0
    ELSE (IF Head(plants).is_milkweed THEN Head(plants).count ELSE 0)
         + MilkweedCount(Tail(plants))

SeasonCovered(plants, season) ==
    \E i \in 1..Len(plants) : season \in plants[i].bloom_seasons

\* Mutant of score_floral_resources: the diversity points are not capped.
score_floral_resources_NoDiversityCap(data) ==
    LET plants == data.plants
        native_species == NativeCount(plants)
        total_species == Len(plants)
        tier == IF native_species >= 10 THEN Pt(12)
                ELSE IF native_species >= 7 THEN Pt(10)
                ELSE IF native_species >= 5 THEN Pt(8)
                ELSE IF native_species >= 3 THEN Pt(5)
                ELSE IF native_species >= 1 THEN Pt(2)
                ELSE 0
        non_native_bonus == Min((total_species - native_species) * 50, Pt(2))
        diversity == tier + non_native_bonus
        cov == data.estimated_flower_coverage_pct
        coverage == IF cov >= 30 THEN Pt(8)
                    ELSE IF cov >= 20 THEN Pt(6)
                    ELSE IF cov >= 10 THEN Pt(4)
                    ELSE IF cov >= 5 THEN Pt(2)
                    ELSE 0
        spring == IF SeasonCovered(plants, "spring") THEN Pt(2) ELSE 0
        summer == IF SeasonCovered(plants, "summer") THEN Pt(2) ELSE 0
        fall == IF SeasonCovered(plants, "fall") THEN Pt(6) ELSE 0
        milkweed_count == MilkweedCount(plants)
        milkweed_bonus == IF milkweed_count >= 5 THEN Pt(5)
                          ELSE IF milkweed_count >= 3 THEN Pt(4)
                          ELSE IF milkweed_count >= 1 THEN Pt(3)
                          ELSE 0
    IN  [diversity |-> diversity, coverage |-> coverage, spring |-> spring,
         summer |-> summer, fall |-> fall, milkweed_bonus |-> milkweed_bonus,
         total |-> Min(diversity + coverage + spring + summer + fall + milkweed_bonus,
                       Pt(35))]

score_floral_resources(data) ==
    LET plants == data.plants
        native_species == NativeCount(plants)
        total_species == Len(plants)
        tier == IF native_species >= 10 THEN Pt(12)
                ELSE IF native_species >= 7 THEN Pt(10)
                ELSE IF native_species >= 5 THEN Pt(8)
                ELSE IF native_species >= 3 THEN Pt(5)
                ELSE IF native_species >= 1 THEN Pt(2)
                ELSE 0
        non_native_bonus == Min((total_species - native_species) * 50, Pt(2))
        diversity == Min(tier + non_native_bonus, Pt(12))
        cov == data.estimated_flower_coverage_pct
        coverage == IF cov >= 30 THEN Pt(8)
                    ELSE IF cov >= 20 THEN Pt(6)
                    ELSE IF cov >= 10 THEN Pt(4)
                    ELSE IF cov >= 5 THEN Pt(2)
                    ELSE 0
        spring == IF SeasonCovered(plants, "spring") THEN Pt(2) ELSE 0
        summer == IF SeasonCovered(plants, "summer") THEN Pt(2) ELSE 0
        fall == IF SeasonCovered(plants, "fall") THEN Pt(6) ELSE 0
        milkweed_count == MilkweedCount(plants)
        milkweed_bonus == IF milkweed_count >= 5 THEN Pt(5)
                          ELSE IF milkweed_count >= 3 THEN Pt(4)
                          ELSE IF milkweed_count >= 1 THEN Pt(3)
                          ELSE 0
    IN  [diversity |-> diversity, coverage |-> coverage, spring |-> spring,
         summer |-> summer, fall |-> fall, milkweed_bonus |-> milkweed_bonus,
         total |-> Min(diversity + coverage + spring + summer + fall + milkweed_bonus,
                       Pt(35))]

score_nesting_habitat(data) ==
    LET ground == IF data.has_bare_ground
                  THEN IF data.bare_ground_sqft >= 50 THEN Pt(10)
                       ELSE IF data.bare_ground_sqft >= 25 THEN Pt(7)
                       ELSE IF data.bare_ground_sqft >= 10 THEN Pt(5)
                       ELSE Pt(3)
                  ELSE 0
        cavity_features == (IF data.has_dead_wood THEN Pt(4) ELSE 0)
                           + (IF data.has_bee_hotel THEN Pt(3) ELSE 0)
                           + (IF data.has_brush_pile THEN Pt(3) ELSE 0)
        cavity == Min(cavity_features, Pt(10))
        undisturbed_sum == (IF data.leaves_stems_over_winter THEN Pt(5) ELSE 0)
                           + (IF data.mowing_frequency \in {"monthly", "rarely"} THEN Pt(3)
                              ELSE IF data.mowing_frequency = "biweekly" THEN Pt(1)
                              ELSE 0)
                           + (IF data.has_brush_pile THEN Pt(2) ELSE 0)
        undisturbed == Min(undisturbed_sum, Pt(10))
    IN  [ground |-> ground, cavity |-> cavity, undisturbed |-> undisturbed,
         total |-> ground + cavity + undisturbed]

\* Mutant of score_connectivity: the early-adopter bonus does not end at
\* three neighbors.
score_connectivity_NoDecay(data) ==
    LET neighbors == data.neighbors_in_program
        pioneer_bonus == IF neighbors = 0 THEN Pt(8) ELSE Pt(4)
        neighbor_score == IF neighbors = 0 THEN 0
                          ELSE IF neighbors <= 2 THEN Pt(neighbors * 2)
                          ELSE IF neighbors >= 5 THEN Pt(10)
                          ELSE IF neighbors >= 3 THEN Pt(7)
                          ELSE Pt(5)
        green_pct == data.green_space_within_500m
        green_space == IF green_pct >= 30 THEN Pt(10)
                       ELSE IF green_pct >= 20 THEN Pt(7)
                       ELSE IF green_pct >= 10 THEN Pt(5)
                       ELSE IF green_pct >= 5 THEN Pt(3)
                       ELSE Pt(2)
    IN  [neighbors |-> neighbor_score, green_space |-> green_space,
         pioneer_bonus |-> pioneer_bonus,
         total |-> Min(neighbor_score + green_space + pioneer_bonus, Pt(20))]

score_connectivity(data) ==
    LET neighbors == data.neighbors_in_program
        pioneer_bonus == IF neighbors = 0 THEN Pt(8)
                         ELSE IF neighbors <= 2 THEN Pt(4)
                         ELSE 0
        neighbor_score == IF neighbors = 0 THEN 0
                          ELSE IF neighbors <= 2 THEN Pt(neighbors * 2)
                          ELSE IF neighbors >= 5 THEN Pt(10)
                          ELSE IF neighbors >= 3 THEN Pt(7)
                          ELSE Pt(5)
        green_pct == data.green_space_within_500m
        green_space == IF green_pct >= 30 THEN Pt(10)
                       ELSE IF green_pct >= 20 THEN Pt(7)
                       ELSE IF green_pct >= 10 THEN Pt(5)
                       ELSE IF green_pct >= 5 THEN Pt(3)
                       ELSE Pt(2)
    IN  [neighbors |-> neighbor_score, green_space |-> green_space,
         pioneer_bonus |-> pioneer_bonus,
         total |-> Min(neighbor_score + green_space + pioneer_bonus, Pt(20))]

score_management(data) ==
    LET pesticide_free ==
            IF ~data.uses_pesticides \/ data.pesticide_frequency = "never" THEN Pt(8)
            ELSE IF data.pesticide_frequency = "rarely" THEN Pt(5)
            ELSE IF data.pesticide_frequency = "sometimes" THEN Pt(2)
            ELSE 0
        total_plants == Len(data.plants)
        native == NativeCount(data.plants)
        \* native_pct >= k, with native_pct = native / total_plants * 100
        AtLeast(k) == native * 100 >= k * total_plants
        native_proportion ==
            IF total_plants > 0
            THEN IF AtLeast(80) THEN Pt(7)
                 ELSE IF AtLeast(60) THEN Pt(5)
                 ELSE IF AtLeast(40) THEN Pt(3)
                 ELSE IF AtLeast(20) THEN Pt(1)
                 ELSE 0
            ELSE 0
    IN  [pesticide_free |-> pesticide_free, native_proportion |-> native_proportion,
         total |-> pesticide_free + native_proportion]

THRESHOLD == 22
MAX_PENALTY == 10

\* Mutant of calculate_impervious_penalty: the penalty is not capped.
calculate_impervious_penalty_NoCap(data) ==
    IF data.impervious_surface_pct <= THRESHOLD THEN 0
    ELSE 0 - (data.impervious_surface_pct - THRESHOLD) * 35

\* Mutant of calculate_impervious_penalty: the penalty starts at 25 percent.
calculate_impervious_penalty_At25(data) ==
    IF data.impervious_surface_pct <= 25 THEN 0
    ELSE 0 - Min((data.impervious_surface_pct - 25) * 35, Pt(MAX_PENALTY))

\* excess * 0.35 is excess * 35 hundredths.
calculate_impervious_penalty(data) ==
    IF data.impervious_surface_pct <= THRESHOLD THEN 0
    ELSE LET excess == data.impervious_surface_pct - THRESHOLD
             penalty == Min(excess * 35, Pt(MAX_PENALTY))
         IN  0 - penalty

\* In percent: fields_provided / 10 * 100.
calculate_data_completeness(data) ==
    LET fields_provided ==
              (IF Len(data.plants) > 0 THEN 1 ELSE 0)
            + (IF data.estimated_flower_coverage_pct > 0 THEN 1 ELSE 0)
            + (IF data.has_bare_ground \/ data.bare_ground_sqft > 0 THEN 1 ELSE 0)
            + (IF data.has_dead_wood \/ data.has_bee_hotel \/ data.has_brush_pile
               THEN 1 ELSE 0)
            + (IF data.leaves_stems_over_winter THEN 1 ELSE 0)
            + (IF data.mowing_frequency # "weekly" THEN 1 ELSE 0)
            + (IF data.pesticide_frequency # "never" THEN 1 ELSE 0)
            + (IF data.lot_size_sqft # 5000 THEN 1 ELSE 0)
            + (IF data.impervious_surface_pct # 30 THEN 1 ELSE 0)
            + (IF data.neighbors_in_program > 0 THEN 1 ELSE 0)
        total_fields == 10
    IN  (fields_provided * 100) \div total_fields

\* Mutant of generate_recommendations: the nesting recommendations do not
\* depend on the nesting score.
generate_recommendations_Ungated(data, nesting_score) ==
    LET has_fall_blooms == SeasonCovered(data.plants, "fall")
        has_milkweed == \E i \in 1..Len(data.plants) : data.plants[i].is_milkweed
        Rec(cond, priority, title) ==
            IF cond THEN <<[priority |-> priority, title |-> title]>> ELSE <<>>
    IN  Rec(~has_fall_blooms, "critical", "September Nectar Gap")
        \o Rec(~has_milkweed, "high", "Missing Host Plant")
        \o Rec(~data.has_bare_ground, "medium", "Ground Nesting Habitat")
        \o Rec(~data.leaves_stems_over_winter, "medium", "Overwintering Habitat")
        \o Rec(data.neighbors_in_program = 0, "medium", "Invite a Neighbor")
        \o Rec(data.uses_pesticides /\ data.pesticide_frequency \in {"sometimes", "often"},
               "high", "Reduce Pesticides")

\* The priorities of the recommendations, in the order they are appended.
generate_recommendations(data, nesting_score) ==
    LET has_fall_blooms == SeasonCovered(data.plants, "fall")
        has_milkweed == \E i \in 1..Len(data.plants) : data.plants[i].is_milkweed
        Rec(cond, priority, title) ==
            IF cond THEN <<[priority |-> priority, title |-> title]>> ELSE <<>>
    IN  Rec(~has_fall_blooms, "critical", "September Nectar Gap")
        \o Rec(~has_milkweed, "high", "Missing Host Plant")
        \o Rec(nesting_score < Pt(15) /\ ~data.has_bare_ground,
               "medium", "Ground Nesting Habitat")
        \o Rec(nesting_score < Pt(15) /\ ~data.leaves_stems_over_winter,
               "medium", "Overwintering Habitat")
        \o Rec(data.neighbors_in_program = 0, "medium", "Invite a Neighbor")
        \o Rec(data.uses_pesticides /\ data.pesticide_frequency \in {"sometimes", "often"},
               "high", "Reduce Pesticides")

\* Mutant of Clamp: the lower limit is not applied.
Clamp_NoFloor(x) == Min(Pt(100), x)

\* max(0, min(100, x))
Clamp(x) == Max(0, Min(Pt(100), x))

\* score_property: the ScoreBreakdown it returns.
score_property(data) ==
    LET floral == score_floral_resources(data)
        nesting == score_nesting_habitat(data)
        connectivity == score_connectivity(data)
        management == score_management(data)
        impervious == calculate_impervious_penalty(data)
        raw_score == floral.total + nesting.total + connectivity.total + management.total
        final_score == Clamp(raw_score + impervious)
        data_completeness == calculate_data_completeness(data)
    IN  [floral_score |-> floral.total,
         floral_diversity |-> floral.diversity,
         floral_coverage |-> floral.coverage,
         floral_spring |-> floral.spring,
         floral_summer |-> floral.summer,
         floral_fall |-> floral.fall,
         floral_milkweed_bonus |-> floral.milkweed_bonus,
         nesting_score |-> nesting.total,
         nesting_ground |-> nesting.ground,
         nesting_cavity |-> nesting.cavity,
         nesting_undisturbed |-> nesting.undisturbed,
         connectivity_score |-> connectivity.total,
         connectivity_pioneer |-> 0,
         management_score |-> management.total,
         impervious_penalty |-> impervious,
         raw_score |-> raw_score,
         final_score |-> final_score,
         grade |-> get_grade(final_score),
         data_completeness |-> data_completeness,
         confidence |-> get_confidence(data_completeness),
         recommendations |-> generate_recommendations(data, nesting.total)]

(***************************************************************************)
(* SCORING_MODELS["2.0.0"] (scoring_config.py 13-144): the tables of the   *)
(* model configuration that the claims read.  A list of tiers keeps its    *)
(* order, a dict of points is a function, points are in hundredths.        *)
(***************************************************************************)
weights == [floral |-> 35, nesting |-> 30, connectivity |-> 20, management |-> 15]

ground_tiers ==
    <<[min |-> 50, points |-> Pt(10)], [min |-> 25, points |-> Pt(7)],
      [min |-> 10, points |-> Pt(5)], [min |-> 1, points |-> Pt(3)]>>

leaves_winter_points == Pt(5)
leaf_litter_points == Pt(2)

mowing_points ==
    [f \in {"never", "monthly", "biweekly", "weekly"} |->
        CASE f = "never" -> Pt(3)
          [] f = "monthly" -> Pt(2)
          [] f = "biweekly" -> Pt(1)
          [] f = "weekly" -> 0]

neighbor_tiers ==
    <<[min |-> 5, points |-> Pt(10)], [min |-> 3, points |-> Pt(7)],
      [min |-> 2, points |-> Pt(5)], [min |-> 1, points |-> Pt(3)]>>

impervious_config == [threshold_pct |-> 22, penalty_per_pct |-> 35, max_penalty |-> Pt(10)]

grade_thresholds ==
    <<[letter |-> "A+", min |-> Pt(90)], [letter |-> "A", min |-> Pt(85)],
      [letter |-> "A-", min |-> Pt(80)], [letter |-> "B+", min |-> Pt(75)],
      [letter |-> "B", min |-> Pt(70)], [letter |-> "B-", min |-> Pt(65)],
      [letter |-> "C+", min |-> Pt(60)], [letter |-> "C", min |-> Pt(55)],
      [letter |-> "C-", min |-> Pt(50)], [letter |-> "D", min |-> Pt(40)]>>

(***************************************************************************)
(* The Cache Manager used on its own: any configuration, any sequence of   *)
(* get, set, clear and get_stats calls, the clock advancing in between.    *)
(***************************************************************************)
\* The record of a call: the operation, the key it computed, whether the key
\* was in the store when the call began, the value returned and the exception
\* raised.
Call(op, key, had, value, raised) ==
    [op |-> op, key |-> key, had |-> had, value |-> value, raised |-> raised]

\* What a pure function's call holds before and after it has returned.
NotReturned == [returned |-> FALSE]
Returned(value) == [returned |-> TRUE, value |-> value]

\* The parts of the state a specification does not use stay as they are here.
CacheUnused ==
    /\ ttl_hours = 0
    /\ max_entries = 0
    /\ cache = <<>>
    /\ stats = [hits |-> 0, misses |-> 0, evictions |-> 0]
    /\ now = 0
LastUnused == last = Call("init", NoneVal, FALSE, NoneVal, NoneVal)
GradeUnused == scores = <<0, 0>> /\ grades = NotReturned
ScoreUnused == prop = NoneVal /\ breakdown = NotReturned
EngineUnused == _sources = <<>> /\ _algorithms = <<>> /\ calls = <<>>
LocationUnused == coords = <<>> /\ locs = NotReturned

CacheInit ==
    /\ GradeUnused
    /\ ScoreUnused
    /\ EngineUnused
    /\ LocationUnused
    /\ ttl_hours \in TtlChoices
    /\ max_entries \in 0..MaxEntries
    /\ cache = <<>>
    /\ stats = [hits |-> 0, misses |-> 0, evictions |-> 0]
    /\ now = 0
    /\ last = Call("init", NoneVal, FALSE, NoneVal, NoneVal)

Get(source, location) ==
    LET r == CacheGet(cache, stats, ttl_hours, now, source, location)
        key == _make_key(source, location.grid_hash)
    IN  /\ stats.hits + stats.misses < MaxCount
        /\ cache' = r.cache
        /\ stats' = r.stats
        /\ last' = Call("get", key, KeyIndex(cache, key) # 0, r.value, NoneVal)
        /\ UNCHANGED <<ttl_hours, max_entries, now>>

Set(source, location, data) ==
    LET r == CacheSet(cache, stats, max_entries, now, source, location, data)
        key == _make_key(source, location.grid_hash)
    IN  /\ r.stats.evictions <= MaxCount
        /\ cache' = r.cache
        /\ stats' = r.stats
        /\ last' = Call("set", key, KeyIndex(cache, key) # 0, NoneVal, r.raised)
        /\ UNCHANGED <<ttl_hours, max_entries, now>>

Clear ==
    /\ cache' = CacheClear(cache)
    /\ last' = Call("clear", NoneVal, FALSE, NoneVal, NoneVal)
    /\ UNCHANGED <<ttl_hours, max_entries, stats, now>>

GetStats ==
    /\ last' = Call("get_stats", NoneVal, FALSE, CacheGetStats(cache, stats), NoneVal)
    /\ UNCHANGED <<ttl_hours, max_entries, cache, stats, now>>

Tick ==
    /\ now < MaxTime
    /\ now' = now + 1
    /\ last' = Call("tick", NoneVal, FALSE, NoneVal, NoneVal)
    /\ UNCHANGED <<ttl_hours, max_entries, cache, stats>>

CacheNext ==
    /\ \/ \E a \in CacheArgs : Get(a[1], a[2])
       \/ \E w \in CacheWrites : Set(w[1], w[2], w[3])
       \/ Clear
       \/ GetStats
       \/ Tick
    /\ UNCHANGED <<gradeVars, scoreVars, engineVars, locationVars>>

SpecCache == CacheInit /\ [][CacheNext]_vars

(***************************************************************************)
(* A cache that is written, then read again and again while the clock      *)
(* advances.                                                               *)
(***************************************************************************)
ReadsInit ==
    /\ GradeUnused
    /\ ScoreUnused
    /\ EngineUnused
    /\ LocationUnused
    /\ ttl_hours = 2
    /\ max_entries \in 1..MaxEntries
    /\ cache = <<>>
    /\ stats = [hits |-> 0, misses |-> 0, evictions |-> 0]
    /\ now = 0
    /\ last = Call("init", NoneVal, FALSE, NoneVal, NoneVal)

Read(source, location) ==
    LET r == CacheGet(cache, stats, ttl_hours, now, source, location)
        key == _make_key(source, location.grid_hash)
    IN  /\ stats.hits + stats.misses < MaxReads
        /\ cache' = r.cache
        /\ stats' = r.stats
        /\ last' = Call("get", key, KeyIndex(cache, key) # 0, r.value, NoneVal)
        /\ UNCHANGED <<ttl_hours, max_entries, now>>

ReadsNext ==
    /\ \/ \E a \in CacheArgs : Read(a[1], a[2])
       \/ \E w \in CacheWrites : Set(w[1], w[2], w[3])
       \/ Tick
    /\ UNCHANGED <<gradeVars, scoreVars, engineVars, locationVars>>

SpecReads == ReadsInit /\ [][ReadsNext]_vars

(***************************************************************************)
(* The grade lookups applied to two scores.  The scores are those at and   *)
(* next to each threshold, in hundredths, and two outside [0, 100].        *)
(***************************************************************************)
GradeScores ==
    UNION {{Pt(t) - 1, Pt(t), Pt(t) + 1, Pt(t) + 500} : t \in {0, 50, 60, 70, 80, 90, 100}}
    \cup {0 - Pt(20)}

GradeInit ==
    /\ CacheUnused
    /\ EngineUnused
    /\ LocationUnused
    /\ LastUnused
    /\ ScoreUnused
    /\ scores \in GradeScores \X GradeScores
    /\ grades = NotReturned

Grade ==
    /\ ~grades.returned
    /\ grades' = Returned(
            [from_score |-> <<from_score(scores[1]), from_score(scores[2])>>,
             get_grade |-> <<get_grade(scores[1]), get_grade(scores[2])>>])
    /\ UNCHANGED <<scores, cacheVars, last, scoreVars, engineVars, locationVars>>

GradeNext == Grade

SpecGrade == GradeInit /\ [][GradeNext]_vars

(***************************************************************************)
(* score_property applied to a PropertyData.  The fields the scorer never  *)
(* reads (lat, lng, grid_hash, distance_to_nearest_habitat_m) are left     *)
(* out; the others start from the dataclass defaults.                      *)
(***************************************************************************)
DefaultProperty ==
    [plants |-> <<>>,
     estimated_flower_coverage_pct |-> 0,
     has_bare_ground |-> FALSE,
     bare_ground_sqft |-> 0,
     has_dead_wood |-> FALSE,
     has_brush_pile |-> FALSE,
     has_bee_hotel |-> FALSE,
     leaves_stems_over_winter |-> FALSE,
     neighbors_in_program |-> 0,
     green_space_within_500m |-> 0,
     uses_pesticides |-> FALSE,
     pesticide_frequency |-> "never",
     mowing_frequency |-> "weekly",
     lot_size_sqft |-> 5000,
     impervious_surface_pct |-> 30]

PlantInventory(count, bloom_seasons, is_native, is_milkweed) ==
    [count |-> count, bloom_seasons |-> bloom_seasons,
     is_native |-> is_native, is_milkweed |-> is_milkweed]

\* The plants of the inventories: the counts and bloom seasons of the
\* module's own examples, native or not, milkweed or not.
PlantKinds ==
    {PlantInventory(cs[1], cs[2], n, m) :
        cs \in {<<1, {"summer"}>>, <<3, {"fall"}>>, <<5, {"spring", "summer"}>>},
        n \in BOOLEAN, m \in BOOLEAN}

Repeat(k, n) == [i \in 1..n |-> k]

\* Inventories: a run of a native plant followed by a run of any plant.
PlantLists ==
    {Repeat(k1, a) \o Repeat(k2, b) :
        k1 \in {k \in PlantKinds : k.is_native}, k2 \in PlantKinds,
        a \in 0..MaxSame, b \in 0..MaxOther}

\* Inventories of a native and a non-native plant, for the native proportion.
MixLists ==
    {Repeat(PlantInventory(1, {"summer"}, TRUE, FALSE), a)
        \o Repeat(PlantInventory(3, {"summer"}, FALSE, FALSE), b) :
        a \in 0..MaxSame, b \in 0..MaxOther}

\* An inventory that earns every floral point.
BestPlants ==
    Repeat(PlantInventory(5, {"spring", "summer"}, TRUE, FALSE), 9)
        \o Repeat(PlantInventory(3, {"fall"}, TRUE, TRUE), 2)

\* The inventory of the high-impervious example.
MilkweedOnly == <<PlantInventory(1, {"summer"}, TRUE, TRUE)>>

Percents == {0, 5, 10, 20, 30}              \* the tier boundaries of a percentage
SquareFeet == {0, 5, 10, 25, 50}            \* the tier boundaries of bare_ground_sqft
ImperviousPcts == {0, 22, 23, 30, 50, 51, 60}
PesticideFrequencies == {"never", "rarely", "sometimes", "often"}
MowingFrequencies == {"weekly", "biweekly", "monthly", "rarely", "never"}

FloralInputs ==
    {[DefaultProperty EXCEPT !.plants = p, !.estimated_flower_coverage_pct = c] :
        p \in PlantLists, c \in {0, 30}}

CoverageInputs ==
    {[DefaultProperty EXCEPT !.plants = p, !.estimated_flower_coverage_pct = c] :
        p \in {<<>>, MilkweedOnly, BestPlants}, c \in Percents}

NestingInputs ==
    {[DefaultProperty EXCEPT !.has_bare_ground = g, !.bare_ground_sqft = q,
                             !.has_dead_wood = d, !.has_brush_pile = b,
                             !.has_bee_hotel = h, !.leaves_stems_over_winter = l,
                             !.mowing_frequency = m] :
        g \in BOOLEAN, q \in SquareFeet, d \in BOOLEAN, b \in BOOLEAN,
        h \in BOOLEAN, l \in BOOLEAN, m \in MowingFrequencies}

ConnectivityInputs ==
    {[DefaultProperty EXCEPT !.neighbors_in_program = n, !.green_space_within_500m = g,
                             !.impervious_surface_pct = i, !.uses_pesticides = u,
                             !.pesticide_frequency = f] :
        n \in 0..MaxNeighbors, g \in Percents, i \in ImperviousPcts,
        u \in BOOLEAN, f \in PesticideFrequencies}

ManagementInputs ==
    {[DefaultProperty EXCEPT !.plants = p, !.uses_pesticides = u,
                             !.pesticide_frequency = f] :
        p \in MixLists, u \in BOOLEAN, f \in PesticideFrequencies}

\* The extremes of every category together.
MixedInputs ==
    {[DefaultProperty EXCEPT !.plants = p, !.estimated_flower_coverage_pct = c,
                             !.has_bare_ground = x, !.bare_ground_sqft = IF x THEN 50 ELSE 0,
                             !.has_dead_wood = x, !.has_brush_pile = x,
                             !.has_bee_hotel = x, !.leaves_stems_over_winter = x,
                             !.mowing_frequency = IF x THEN "monthly" ELSE "weekly",
                             !.neighbors_in_program = n, !.green_space_within_500m = g,
                             !.uses_pesticides = u,
                             !.pesticide_frequency = IF u THEN "often" ELSE "never",
                             !.lot_size_sqft = lot,
                             !.impervious_surface_pct = i] :
        p \in {<<>>, MilkweedOnly, BestPlants}, c \in {0, 30}, x \in BOOLEAN,
        n \in {0, 1, 5}, g \in {0, 30}, u \in BOOLEAN, lot \in {5000, 8000},
        i \in {22, 30, 60}}

PropertyInputs ==
    FloralInputs \cup CoverageInputs \cup NestingInputs \cup ConnectivityInputs
        \cup ManagementInputs \cup MixedInputs

ScoreInit ==
    /\ CacheUnused
    /\ EngineUnused
    /\ LocationUnused
    /\ LastUnused
    /\ GradeUnused
    /\ prop \in PropertyInputs
    /\ breakdown = NotReturned

Score ==
    /\ ~breakdown.returned
    /\ breakdown' = Returned(score_property(prop))
    /\ UNCHANGED <<prop, cacheVars, last, gradeVars, engineVars, locationVars>>

ScoreNext == Score

SpecScore == ScoreInit /\ [][ScoreNext]_vars

(***************************************************************************)
(* PollinatorEngine (engine.py 238-298).  A registry dict is a sequence of *)
(* entries in insertion order.  A dict that a source returns is kept as    *)
(* an opaque payload ("p1", "p2"); the dict {"error": str(e)} is kept as   *)
(* its text.  A coroutine runs from one suspension point to the next in    *)
(* one step: the only suspension point is "await source.fetch(location)".  *)
(***************************************************************************)
DefaultMaxEntries == 1000   \* CacheManager(ttl_hours = cache_ttl_hours): max_entries defaults

SourceNames == CacheSources
SourceImpls == {"live"}                 \* the DataSource object of a name
AlgorithmNames == {"homeowner_v1"}
\* Two ScoringAlgorithm objects: one scores whatever the bundle holds, one
\* raises when a source's entry is an error record.
AlgorithmImpls == {"tolerant", "strict"}
FetchResults == {"p1"}                  \* what a fetch returns
FetchErrors == {"timeout"}              \* str(e) of what a fetch raises

ErrorRecord(msg) == "{'error': '" \o msg \o "'}"
ErrorRecords == {ErrorRecord(m) : m \in FetchErrors}

\* The sources parameter of fetch_data: None, or a list of names.
NoSources == [is_none |-> TRUE]
SourceList(names) == [is_none |-> FALSE, names |-> names]

\* What a call ended in when it raised.
Raised(exc, message) == [returned |-> FALSE, raised |-> exc, message |-> message]

\* Mutant of Register: a name that is bound keeps its first object.
Register_KeepFirst(registry, name, obj) ==
    IF \E i \in 1..Len(registry) : registry[i].name = name
    THEN registry
    ELSE Append(registry, [name |-> name, obj |-> obj])

\* registry[obj.name] = obj
Register(registry, name, obj) ==
    IF \E i \in 1..Len(registry) : registry[i].name = name
    THEN [i \in 1..Len(registry) |->
            IF registry[i].name = name THEN [name |-> name, obj |-> obj] ELSE registry[i]]
    ELSE Append(registry, [name |-> name, obj |-> obj])

\* list(registry.keys())
RegistryKeys(registry) == [i \in 1..Len(registry) |-> registry[i].name]

\* registry.get(name): the object, or None.
RegistryGet(registry, name) ==
    IF \E i \in 1..Len(registry) : registry[i].name = name
    THEN registry[CHOOSE i \in 1..Len(registry) : registry[i].name = name].obj
    ELSE NoneVal

\* data[key] = value, for a value that is a dict (a payload or an error
\* record).  An entry carries the type of its value: a bundle holds a
\* Location and dicts.
BundlePut(data, key, value) ==
    LET entry == [key |-> key, type |-> "dict", value |-> value]
    IN  IF \E i \in 1..Len(data) : data[i].key = key
        THEN [i \in 1..Len(data) |-> IF data[i].key = key THEN entry ELSE data[i]]
        ELSE Append(data, entry)

BundleKeys(data) == {data[i].key : i \in 1..Len(data)}
BundleGet(data, key) == data[CHOOSE i \in 1..Len(data) : data[i].key = key].value

\* The source entries of a bundle that are error records.
ErrorKeys(data) ==
    {data[i].key : i \in {k \in 1..Len(data) :
        data[k].key # "_location" /\ data[k].value \in ErrorRecords}}

\* ScoringAlgorithm.calculate of the two algorithm objects.
Calculate(algo, algorithm, location, data) ==
    IF algo = "strict" /\ ErrorKeys(data) # {}
    THEN [raised |-> "KeyError", value |-> NoneVal]
    ELSE [raised |-> NoneVal,
          value |-> [location |-> location, algorithm |-> algorithm,
                     errors |-> Cardinality(ErrorKeys(data))]]

\* A call of fetch_data, score or batch_score before its first statement.
\* A frame holds the call's arguments and locals: locations[j] is the
\* location being processed and names[i] the source being visited.
Frame(op, locations, sources, algorithm) ==
    [op |-> op, pc |-> op, locations |-> locations, j |-> 1,
     sources |-> sources, names |-> <<>>, i |-> 1, data |-> <<>>,
     algorithm |-> algorithm, algo |-> NoneVal, results |-> <<>>,
     outcome |-> NotReturned]

IdleFrame == Frame("idle", <<>>, NoSources, NoneVal)

\* The call has ended: its arguments and its outcome remain, its locals are gone.
Done(f, outcome) ==
    [Frame(f.op, f.locations, f.sources, f.algorithm) EXCEPT
        !.pc = "done", !.outcome = outcome]

\* Mutant of ScoreEntry: the data is fetched before the algorithm is
\* looked up.
ScoreEntry_FetchFirst(f, algos) ==
    [f EXCEPT !.algo = IF RegistryGet(algos, f.algorithm) = NoneVal
                       THEN "strict"
                       ELSE RegistryGet(algos, f.algorithm),
              !.sources = NoSources, !.pc = "fetch_data"]

\* Mutant of ScoreEntry: an unknown name falls back to the algorithm that
\* was registered first.
ScoreEntry_Fallback(f, algos) ==
    IF algos = <<>>
    THEN Done(f, Raised("ValueError", "Unknown algorithm: " \o f.algorithm))
    ELSE [f EXCEPT !.algo = IF RegistryGet(algos, f.algorithm) = NoneVal
                              THEN algos[1].obj
                              ELSE RegistryGet(algos, f.algorithm),
                   !.sources = NoSources, !.pc = "fetch_data"]

\* score, up to its call of fetch_data(location): the algorithm is looked up
\* and an unknown name raises ValueError, which batch_score lets through.
ScoreEntry(f, algos) ==
    LET algo == RegistryGet(algos, f.algorithm)
    IN  IF algo = NoneVal
        THEN Done(f, Raised("ValueError", "Unknown algorithm: " \o f.algorithm))
        ELSE [f EXCEPT !.algo = algo, !.sources = NoSources, !.pc = "fetch_data"]

\* Mutant of FetchFailed: the exception of the fetch leaves fetch_data.
FetchFailed_Propagate(f, message) == Done(f, Raised("Exception", message))

\* The except clause of fetch_data: the error record takes the source's
\* place in the bundle and the loop goes on with the next name.
FetchFailed(f, message) ==
    [f EXCEPT !.data = BundlePut(f.data, f.names[f.i], ErrorRecord(message)),
              !.i = f.i + 1, !.pc = "for"]

\* The try block of fetch_data after the fetch has returned result: the
\* bundle and the cache take it; were set to raise, the except clause runs.
FetchSucceeded(m, mx, t, result) ==
    LET f == m.frame
        s == CacheSet(m.cache, m.stats, mx, t, f.names[f.i], f.locations[f.j], result)
    IN  IF s.raised # NoneVal
        THEN [m EXCEPT !.frame = FetchFailed(f, "min() arg is an empty sequence")]
        ELSE [frame |-> [f EXCEPT !.data = BundlePut(f.data, f.names[f.i], result),
                                  !.i = f.i + 1, !.pc = "for"],
              cache |-> s.cache, stats |-> s.stats]

\* Mutant of SourcesOrAll: only None stands for every registered source.
SourcesOrAll_NoneOnly(sources, srcs) ==
    IF sources.is_none THEN RegistryKeys(srcs) ELSE sources.names

\* sources or list(self._sources.keys()): None and the empty list are falsy.
SourcesOrAll(sources, srcs) ==
    IF sources.is_none \/ sources.names = <<>>
    THEN RegistryKeys(srcs)
    ELSE sources.names

\* Mutant of SkipSource: a name that is not registered leaves an error
\* record in the bundle.
SkipSource_RecordsError(f) == FetchFailed(f, "timeout")

\* if not source: continue
SkipSource(f) == [f EXCEPT !.i = f.i + 1]

\* One statement of the call in m.frame, with the cache it reads and writes.
Step(m, srcs, algos, ttl, t) ==
    LET f == m.frame
    IN  CASE f.pc = "batch_score" ->
               \* for loc in locations: ...; return results
               IF f.j > Len(f.locations)
               THEN [m EXCEPT !.frame = Done(f, Returned(f.results))]
               ELSE [m EXCEPT !.frame.pc = "score"]
          [] f.pc = "score" ->
               [m EXCEPT !.frame = ScoreEntry(f, algos)]
          [] f.pc = "fetch_data" ->
               \* sources = sources or list(self._sources.keys())
               LET names == SourcesOrAll(f.sources, srcs)
               IN  [m EXCEPT !.frame =
                       [f EXCEPT !.names = names, !.i = 1, !.pc = "for",
                                 !.data = <<[key |-> "_location", type |-> "Location",
                                             value |-> f.locations[f.j]]>>]]
          [] f.pc = "for" ->
               IF f.i > Len(f.names)
               THEN \* return data
                    IF f.op = "fetch_data"
                    THEN [m EXCEPT !.frame = Done(f, Returned(f.data))]
                    ELSE [m EXCEPT !.frame.pc = "calculate"]
               ELSE LET source_name == f.names[f.i]
                        source == RegistryGet(srcs, source_name)
                    IN  IF source = NoneVal
                        THEN [m EXCEPT !.frame = SkipSource(f)]
                        ELSE LET cached == CacheGet(m.cache, m.stats, ttl, t,
                                                    source_name, f.locations[f.j])
                             IN  IF cached.value # NoneVal
                                 THEN [frame |-> [f EXCEPT
                                          !.data = BundlePut(f.data, source_name, cached.value),
                                          !.i = f.i + 1],
                                       cache |-> cached.cache, stats |-> cached.stats]
                                 ELSE [frame |-> [f EXCEPT !.pc = "await"],
                                       cache |-> cached.cache, stats |-> cached.stats]
          [] f.pc = "calculate" ->
               \* return algo.calculate(location, data); results.append(result)
               LET r == Calculate(f.algo, f.algorithm, f.locations[f.j], f.data)
               IN  IF r.raised # NoneVal
                   THEN [m EXCEPT !.frame = Done(f, Raised(r.raised, "error"))]
                   ELSE IF f.op = "score"
                   THEN [m EXCEPT !.frame = Done(f, Returned(r.value))]
                   ELSE [m EXCEPT !.frame = [f EXCEPT !.results = Append(f.results, r.value),
                                                      !.j = f.j + 1, !.pc = "batch_score"]]

\* The call runs until it is suspended in a fetch or has ended.
RECURSIVE Run(_, _, _, _, _)
Run(m, srcs, algos, ttl, t) ==
    IF m.frame.pc \in {"await", "done"}
    THEN m
    ELSE Run(Step(m, srcs, algos, ttl, t), srcs, algos, ttl, t)

(***************************************************************************)
(* The engine in use: sources and algorithms are registered, fetch_data,   *)
(* score and batch_score are called, each fetch a call waits for returns   *)
(* a payload or raises, and the clock advances in between.                 *)
(***************************************************************************)
Tasks == {"t1"}

UnknownAlgorithm == "unknown_v9"        \* never registered
UnknownSource == "osm"                  \* never registered

SourcesArgs ==
    {NoSources, SourceList(<<>>), SourceList(<<"inat">>),
     SourceList(<<"gbif", "inat">>), SourceList(<<"inat", "inat">>),
     SourceList(<<UnknownSource, "inat">>)}

Batches ==
    {<<>>, <<[grid_hash |-> "40.7_-111.9"]>>,
     <<[grid_hash |-> "40.666_-111.897"], [grid_hash |-> "40.7_-111.9"]>>,
     <<[grid_hash |-> "40.7_-111.9"], [grid_hash |-> "40.7_-111.9"]>>}

\* The record of an engine step: the call or the fetch of a task, the cache
\* key of the fetch, what it returned and what it raised.
EngineCall(op, task, key, value, raised) ==
    [op |-> op, task |-> task, key |-> key, had |-> FALSE,
     value |-> value, raised |-> raised]

EngineInit ==
    /\ GradeUnused
    /\ ScoreUnused
    /\ LocationUnused
    /\ ttl_hours \in TtlChoices
    /\ max_entries = DefaultMaxEntries
    /\ cache = <<>>
    /\ stats = [hits |-> 0, misses |-> 0, evictions |-> 0]
    /\ now = 0
    /\ last = Call("init", NoneVal, FALSE, NoneVal, NoneVal)
    /\ _sources = <<>>
    /\ _algorithms = <<>>
    /\ calls = [t \in Tasks |-> IdleFrame]

\* The registrations leave the record of the step to the specification
\* they are used in.
RegisterSource(name, obj) ==
    /\ _sources' = Register(_sources, name, obj)
    /\ UNCHANGED <<cacheVars, _algorithms, calls>>

RegisterAlgorithm(name, obj) ==
    /\ _algorithms' = Register(_algorithms, name, obj)
    /\ UNCHANGED <<cacheVars, _sources, calls>>

\* The record of a registration when the name and the object do not matter.
Registration == EngineCall("register", NoneVal, NoneVal, NoneVal, NoneVal)

\* An engine call may begin: the cache has seen at most limit lookups.
MayCall(limit) == stats.hits + stats.misses <= limit

\* A task calls an entry point: the call runs to its first fetch or its end.
Enter(t, f) ==
    LET m == Run([frame |-> f, cache |-> cache, stats |-> stats],
                 _sources, _algorithms, ttl_hours, now)
    IN  /\ calls[t].pc \in {"idle", "done"}
        /\ calls' = [calls EXCEPT ![t] = m.frame]
        /\ cache' = m.cache
        /\ stats' = m.stats
        /\ last' = EngineCall(f.op, t, NoneVal, NoneVal, NoneVal)
        /\ UNCHANGED <<ttl_hours, max_entries, now, _sources, _algorithms>>

FetchData(t, location, sources) ==
    Enter(t, Frame("fetch_data", <<location>>, sources, NoneVal))

EngineScore(t, location, algorithm) ==
    Enter(t, Frame("score", <<location>>, NoSources, algorithm))

BatchScore(t, locations, algorithm) ==
    Enter(t, Frame("batch_score", locations, NoSources, algorithm))

\* The fetch a task waits for returns result: the call runs on.
FetchReturns(t, result) ==
    LET f == calls[t]
        m == Run(FetchSucceeded([frame |-> f, cache |-> cache, stats |-> stats],
                                max_entries, now, result),
                 _sources, _algorithms, ttl_hours, now)
    IN  /\ f.pc = "await"
        /\ calls' = [calls EXCEPT ![t] = m.frame]
        /\ cache' = m.cache
        /\ stats' = m.stats
        /\ last' = EngineCall("fetch", t,
                        _make_key(f.names[f.i], f.locations[f.j].grid_hash),
                        result, NoneVal)
        /\ UNCHANGED <<ttl_hours, max_entries, now, _sources, _algorithms>>

\* Mutant of FetchRaises: the error record is written to the cache as a
\* payload would be.
FetchRaises_CachesError(t, message) ==
    LET f == calls[t]
        m == Run(FetchSucceeded([frame |-> f, cache |-> cache, stats |-> stats],
                                max_entries, now, ErrorRecord(message)),
                 _sources, _algorithms, ttl_hours, now)
    IN  /\ f.pc = "await"
        /\ calls' = [calls EXCEPT ![t] = m.frame]
        /\ cache' = m.cache
        /\ stats' = m.stats
        /\ last' = EngineCall("fetch", t,
                        _make_key(f.names[f.i], f.locations[f.j].grid_hash),
                        NoneVal, message)
        /\ UNCHANGED <<ttl_hours, max_entries, now, _sources, _algorithms>>

\* The fetch a task waits for raises an Exception: the call runs on.
FetchRaises(t, message) ==
    LET f == calls[t]
        m == Run([frame |-> FetchFailed(f, message), cache |-> cache, stats |-> stats],
                 _sources, _algorithms, ttl_hours, now)
    IN  /\ f.pc = "await"
        /\ calls' = [calls EXCEPT ![t] = m.frame]
        /\ cache' = m.cache
        /\ stats' = m.stats
        /\ last' = EngineCall("fetch", t,
                        _make_key(f.names[f.i], f.locations[f.j].grid_hash),
                        NoneVal, message)
        /\ UNCHANGED <<ttl_hours, max_entries, now, _sources, _algorithms>>

EngineNext ==
    /\ \/ \E n \in SourceNames, o \in SourceImpls :
             RegisterSource(n, o) /\ last' = Registration
       \/ \E n \in AlgorithmNames, o \in AlgorithmImpls :
             RegisterAlgorithm(n, o) /\ last' = Registration
       \/ \E t \in Tasks, l \in Locations, s \in SourcesArgs :
             MayCall(MaxPriorLookups) /\ FetchData(t, l, s)
       \/ \E t \in Tasks, l \in Locations, a \in AlgorithmNames \cup {UnknownAlgorithm} :
             MayCall(MaxPriorLookups) /\ EngineScore(t, l, a)
       \/ \E t \in Tasks, b \in Batches, a \in AlgorithmNames \cup {UnknownAlgorithm} :
             MayCall(MaxPriorLookups) /\ BatchScore(t, b, a)
       \/ \E t \in Tasks, r \in FetchResults : FetchReturns(t, r)
       \/ \E t \in Tasks, e \in FetchErrors : FetchRaises(t, e)
       \/ Tick /\ UNCHANGED <<_sources, _algorithms, calls>>
    /\ UNCHANGED <<gradeVars, scoreVars, locationVars>>

SpecEngine == EngineInit /\ [][EngineNext]_vars

(***************************************************************************)
(* The registries on their own: sources and algorithms are registered,     *)
(* two objects under each name, and the names are listed.                  *)
(***************************************************************************)
RegistrySourceImpls == {"live", "mirror"}     \* two DataSource objects of a name

ListSources ==
    /\ last' = EngineCall("list_sources", NoneVal, NoneVal, RegistryKeys(_sources), NoneVal)
    /\ UNCHANGED <<cacheVars, engineVars>>

ListAlgorithms ==
    /\ last' = EngineCall("list_algorithms", NoneVal, NoneVal,
                          RegistryKeys(_algorithms), NoneVal)
    /\ UNCHANGED <<cacheVars, engineVars>>

RegistryNext ==
    /\ \/ \E n \in SourceNames, o \in RegistrySourceImpls :
             /\ RegisterSource(n, o)
             /\ last' = EngineCall("register_source", NoneVal, n, o, NoneVal)
       \/ \E n \in AlgorithmNames, o \in AlgorithmImpls :
             /\ RegisterAlgorithm(n, o)
             /\ last' = EngineCall("register_algorithm", NoneVal, n, o, NoneVal)
       \/ ListSources
       \/ ListAlgorithms
    /\ UNCHANGED <<gradeVars, scoreVars, locationVars>>

SpecRegistry == EngineInit /\ [][RegistryNext]_vars

(***************************************************************************)
(* fetch_data on its own: the sources have been registered, fetch_data is  *)
(* called again and again, each fetch returns one of two payloads or       *)
(* raises, and the clock advances in between.                              *)
(***************************************************************************)
Source(name) == [name |-> name, obj |-> "live"]

\* The registries fetch_data is called with: one source, two sources, and a
\* source whose name is "_location".
FetchRegistries ==
    {<<Source("inat")>>,
     <<Source("inat"), Source("gbif")>>,
     <<Source("_location"), Source("inat")>>}

FetchInit ==
    /\ GradeUnused
    /\ ScoreUnused
    /\ LocationUnused
    /\ ttl_hours \in TtlChoices
    /\ max_entries = DefaultMaxEntries
    /\ cache = <<>>
    /\ stats = [hits |-> 0, misses |-> 0, evictions |-> 0]
    /\ now = 0
    /\ last = Call("init", NoneVal, FALSE, NoneVal, NoneVal)
    /\ _sources \in FetchRegistries
    /\ _algorithms = <<>>
    /\ calls = [t \in Tasks |-> IdleFrame]

FetchNext ==
    /\ \/ \E t \in Tasks, l \in Locations, s \in SourcesArgs :
             MayCall(MaxFetchLookups) /\ FetchData(t, l, s)
       \/ \E t \in Tasks, r \in Payloads : FetchReturns(t, r)
       \/ \E t \in Tasks, e \in FetchErrors : FetchRaises(t, e)
       \/ Tick /\ UNCHANGED <<_sources, _algorithms, calls>>
    /\ UNCHANGED <<gradeVars, scoreVars, locationVars>>

SpecFetch == FetchInit /\ [][FetchNext]_vars

(***************************************************************************)
(* Two tasks call fetch_data on one engine with two sources and a small    *)
(* cache: a call of one task runs while the other waits for a fetch, so    *)
(* the calls interleave at their suspension points.  No algorithm is       *)
(* registered, and score is called as well.  The cache is cleared and the  *)
(* clock advances in between.                                              *)
(***************************************************************************)
OverlapTasks == {"t1", "t2"}

OverlapSources == {NoSources, SourceList(<<"inat">>)}

\* The location of every call.
OverlapLocation == [grid_hash |-> "40.666_-111.897"]

OverlapInit ==
    /\ GradeUnused
    /\ ScoreUnused
    /\ LocationUnused
    /\ ttl_hours \in TtlChoices
    /\ max_entries \in 1..MaxEntries
    /\ cache = <<>>
    /\ stats = [hits |-> 0, misses |-> 0, evictions |-> 0]
    /\ now = 0
    /\ last = Call("init", NoneVal, FALSE, NoneVal, NoneVal)
    /\ _sources = <<Source("inat"), Source("gbif")>>
    /\ _algorithms = <<>>
    /\ calls = [t \in OverlapTasks |-> IdleFrame]

OverlapNext ==
    /\ \/ \E t \in OverlapTasks, s \in OverlapSources :
             MayCall(MaxOverlapLookups) /\ FetchData(t, OverlapLocation, s)
       \/ \E t \in OverlapTasks : EngineScore(t, OverlapLocation, UnknownAlgorithm)
       \/ \E t \in OverlapTasks, r \in Payloads : FetchReturns(t, r)
       \/ \E t \in OverlapTasks, e \in FetchErrors : FetchRaises(t, e)
       \/ Clear /\ UNCHANGED <<_sources, _algorithms, calls>>
       \/ Tick /\ UNCHANGED <<_sources, _algorithms, calls>>
    /\ UNCHANGED <<gradeVars, scoreVars, locationVars>>

SpecOverlap == OverlapInit /\ [][OverlapNext]_vars

(***************************************************************************)
(* Two Locations are constructed.  The coordinates, in ten-thousandths of  *)
(* a degree, lie on both sides of zero and of a cell's border; grid_hash   *)
(* is left to its default "" or given.                                     *)
(***************************************************************************)
LatInputs == {0 - 4, 0 - 1, 1, 4, 6, 406656, 406664, 407001}
LngInputs == {0 - 1118971, 0 - 1118966, 0 - 1119002, 1}
GridHashInputs == {"", "manual"}
LocationArgs == LatInputs \X LngInputs \X GridHashInputs

LocationInit ==
    /\ CacheUnused
    /\ LastUnused
    /\ GradeUnused
    /\ ScoreUnused
    /\ EngineUnused
    /\ coords \in LocationArgs \X LocationArgs
    /\ locs = NotReturned

Construct ==
    /\ ~locs.returned
    /\ locs' = Returned(<<Location(coords[1][1], coords[1][2], coords[1][3]),
                          Location(coords[2][1], coords[2][2], coords[2][3])>>)
    /\ UNCHANGED <<coords, cacheVars, last, gradeVars, scoreVars, engineVars>>

LocationNext == Construct

SpecLocation == LocationInit /\ [][LocationNext]_vars

(***************************************************************************)
(* Claims about the Cache Manager, checked under SpecCache.                *)
(***************************************************************************)
Keys(c) == {c[i].key : i \in 1..Len(c)}

\* C2: Cache TTL.  A get of a key whose entry was written at time T returns
\* the entry's payload unchanged, counts a hit and leaves the store alone
\* when now - T < ttl; when now - T >= ttl it returns the absent result,
\* counts a miss and no hit, and deletes the entry from the store.
C2_CacheTTL ==
    [][last'.op = "get" /\ KeyIndex(cache, last'.key) # 0 =>
        LET entry == cache[KeyIndex(cache, last'.key)]
        IN  IF now - entry.timestamp < ttl_hours
            THEN /\ last'.value = entry.data
                 /\ stats'.hits = stats.hits + 1
                 /\ stats'.misses = stats.misses
                 /\ cache' = cache
            ELSE /\ last'.value = NoneVal
                 /\ stats'.misses = stats.misses + 1
                 /\ stats'.hits = stats.hits
                 /\ last'.key \notin Keys(cache')
                 /\ Len(cache') = Len(cache) - 1]_vars

\* A get that hit an entry written before the current hour.
C2_Witness ==
    /\ last.op = "get"
    /\ last.value \in Payloads
    /\ stats.hits = 1
    /\ \E i \in 1..Len(cache) :
          cache[i].key = last.key /\ cache[i].timestamp < now

\* C3: Cache capacity.  With max_entries >= 1, a set of a key that is not in
\* the store removes exactly one entry when the store holds max_entries
\* entries, an entry whose timestamp no other entry's is below, counts one
\* eviction and then inserts the new entry; when the store holds fewer
\* entries it removes nothing and leaves the eviction counter unchanged.
C3_CacheCapacity ==
    [][last'.op = "set" /\ max_entries >= 1 /\ ~last'.had =>
        LET n == Len(cache)
        IN  /\ n <= max_entries
            /\ last'.raised = NoneVal
            /\ cache'[Len(cache')].key = last'.key
            /\ cache'[Len(cache')].timestamp = now
            /\ IF n = max_entries
               THEN /\ \E i \in 1..n :
                          /\ \A j \in 1..n : cache[i].timestamp <= cache[j].timestamp
                          /\ SubSeq(cache', 1, n - 1) = DelAt(cache, i)
                    /\ Len(cache') = n
                    /\ stats'.evictions = stats.evictions + 1
               ELSE /\ SubSeq(cache', 1, n) = cache
                    /\ Len(cache') = n + 1
                    /\ stats'.evictions = stats.evictions]_vars

\* A set of a new key into a full store of two entries evicted one of them.
C3_Witness ==
    /\ last.op = "set"
    /\ ~last.had
    /\ max_entries = 2
    /\ Len(cache) = 2
    /\ stats.evictions = 1

\* C4 as stated: at capacity, a set that overwrites a key already present
\* evicts an entry of another key.
C4_OverwriteEvictsOther ==
    [][last'.op = "set" /\ last'.had /\ Len(cache) >= max_entries =>
        \E i \in 1..Len(cache) :
            /\ cache[i].key # last'.key
            /\ cache[i].key \notin Keys(cache')]_vars

\* C4 as amended: at capacity, a set that overwrites a key already present
\* evicts the oldest entry and counts one eviction; the evicted entry is
\* another key's unless the key written is itself the oldest, and then only
\* its own entry is removed and written again and no other key is lost.
C4_OverwriteEvictsOldest ==
    [][last'.op = "set" /\ last'.had /\ Len(cache) >= max_entries =>
        \E i \in 1..Len(cache) :
            /\ \A j \in 1..Len(cache) : cache[i].timestamp <= cache[j].timestamp
            /\ stats'.evictions = stats.evictions + 1
            /\ Keys(cache') = (Keys(cache) \ {cache[i].key}) \cup {last'.key}
            /\ Len(cache') = Cardinality(Keys(cache'))
            /\ cache'[KeyIndex(cache', last'.key)].timestamp = now]_vars

\* An overwrite at capacity that cost another key its entry.
C4_Witness ==
    /\ last.op = "set"
    /\ last.had
    /\ max_entries = 2
    /\ Len(cache) = 1
    /\ stats.evictions = 1

\* C5 as stated: no Cache Manager call raises, whatever the configuration.
C5_NeverRaises == last.raised = NoneVal

(***************************************************************************)
(* Claims about the engine, checked under SpecEngine.                      *)
(***************************************************************************)
Registered(registry, name) == RegistryGet(registry, name) # NoneVal

\* Whether a call has ended by raising.
HasRaised(f) == f.pc = "done" /\ ~f.outcome.returned

\* C1: fetch_data never raises because a source's fetch fails.  In the step
\* in which the fetch a call waits for raises, the bundle takes the error
\* record {"error": <message>} under that source's name and loses no entry;
\* every later name of the list that is registered is processed (it has its
\* entry, or its fetch is the one now awaited); and when fetch_data is the
\* call, it does not end by raising: it returns a bundle that holds the
\* Location and, under each requested registered name and no other, one
\* entry that is a payload or an error record.
C1_FetchIsolation ==
    [][\A t \in Tasks :
        last'.op = "fetch" /\ last'.task = t /\ last'.raised # NoneVal =>
            LET f == calls[t]
                g == calls'[t]
                name == f.names[f.i]
                sameBundle == g.pc = "await" /\ g.j = f.j
                bundle == IF sameBundle THEN g.data
                          ELSE IF g.pc = "done" /\ g.op = "fetch_data" /\ g.outcome.returned
                          THEN g.outcome.value
                          ELSE <<>>
                visited == IF sameBundle THEN (f.i + 1)..(g.i - 1)
                           ELSE (f.i + 1)..Len(f.names)
            IN  /\ g.op = "fetch_data" =>
                    /\ ~HasRaised(g)
                    /\ sameBundle \/ (g.pc = "done" /\ g.outcome.returned)
                /\ sameBundle => g.i > f.i /\ Registered(_sources, g.names[g.i])
                /\ Len(bundle) > 0 =>
                    /\ BundleKeys(f.data) \subseteq BundleKeys(bundle)
                    /\ BundleGet(bundle, name) = ErrorRecord(last'.raised)
                    /\ \A k \in visited :
                          Registered(_sources, f.names[k]) => f.names[k] \in BundleKeys(bundle)
                    /\ Len(bundle) = Cardinality(BundleKeys(bundle))
                    /\ bundle[1].key = "_location"
                    /\ \A k \in 2..Len(bundle) :
                          /\ bundle[k].value \in FetchResults \cup ErrorRecords
                          /\ \E n \in 1..Len(f.names) : f.names[n] = bundle[k].key
                          /\ Registered(_sources, bundle[k].key)]_vars

\* fetch_data returned a bundle in which the first source's entry is an error
\* record and the entry of the source visited after it is a payload.
C1_Witness ==
    \E t \in Tasks :
        /\ calls[t].op = "fetch_data"
        /\ calls[t].pc = "done"
        /\ calls[t].outcome.returned
        /\ Len(calls[t].outcome.value) = 3
        /\ calls[t].outcome.value[2].value \in ErrorRecords
        /\ calls[t].outcome.value[3].value \in FetchResults

\* C6: score called with an algorithm name that is not registered ends, in
\* the step of the call, in ValueError "Unknown algorithm: <name>" and no
\* ScoringResult; the registries are as they were and the task is free to
\* call again.
C6_UnknownAlgorithm ==
    [][\A t \in Tasks :
        /\ last'.op = "score"
        /\ last'.task = t
        /\ ~Registered(_algorithms, calls'[t].algorithm)
        => /\ calls'[t].pc = "done"
           /\ calls'[t].outcome =
                 Raised("ValueError", "Unknown algorithm: " \o calls'[t].algorithm)
           /\ ~calls'[t].outcome.returned
           /\ calls'[t].results = <<>>
           /\ _algorithms' = _algorithms
           /\ _sources' = _sources]_vars

\* score was called with the unknown name while an algorithm and a source
\* were registered, and ended in ValueError.
C6_Witness ==
    \E t \in Tasks :
        /\ last.op = "score"
        /\ calls[t].op = "score"
        /\ calls[t].algorithm = UnknownAlgorithm
        /\ HasRaised(calls[t])
        /\ calls[t].outcome.raised = "ValueError"
        /\ _algorithms # <<>>
        /\ _sources # <<>>

\* C7 as stated: when a batch_score call ends in the step of a fetch (the
\* algorithm was found, the sources were consulted), it returns, and it
\* returns a result for every location of the batch other than the one
\* being scored in that step.
C7_BatchIsolation ==
    [][\A t \in Tasks :
        /\ calls[t].op = "batch_score"
        /\ calls[t].pc = "await"
        /\ calls'[t].pc = "done"
        => /\ calls'[t].outcome.returned
           /\ \A k \in 1..Len(calls[t].locations) :
                 k # calls[t].j =>
                    \E n \in 1..Len(calls'[t].outcome.value) :
                        calls'[t].outcome.value[n].location = calls[t].locations[k]]_vars

\* C15: clear empties the store and leaves the counters alone: after it the
\* store has 0 entries and hits, misses and evictions are what they were.
\* Until a set, a get finds nothing: a get of a key that is not in the store
\* is a miss that adds no entry, and no call but set adds a key.
C15_ClearFrame ==
    [][/\ last'.op = "clear" =>
            /\ cache' = <<>>
            /\ CacheGetStats(cache', stats').entries = 0
            /\ stats' = stats
       /\ (last'.op = "get" /\ KeyIndex(cache, last'.key) = 0) =>
            /\ last'.value = NoneVal
            /\ stats'.misses = stats.misses + 1
            /\ stats'.hits = stats.hits
            /\ cache' = cache
       /\ last'.op # "set" => Keys(cache') \subseteq Keys(cache)]_vars

\* clear has emptied the store after a lookup had hit an entry of it, and the
\* hit is still counted.
C15_Witness ==
    /\ last.op = "clear"
    /\ cache = <<>>
    /\ stats.hits = 1

(***************************************************************************)
(* Claims about the grade lookups, checked under SpecGrade.                *)
(***************************************************************************)
\* The tiers from the highest to the lowest, and a tier's place among them.
TierOrder == <<"A+", "A", "B", "C", "D", "F">>
TierRank(letter) == CHOOSE i \in 1..Len(TierOrder) : TierOrder[i] = letter

\* The first tier, in the order of the thresholds 90, 80, 70, 60, 50, 0,
\* whose minimum is at most the score (for a score of 0 or more).
DescendingThresholds == <<90, 80, 70, 60, 50, 0>>
FirstTier(score) ==
    TierOrder[CHOOSE i \in 1..Len(DescendingThresholds) :
        /\ Pt(DescendingThresholds[i]) <= score
        /\ \A j \in 1..(i - 1) : Pt(DescendingThresholds[j]) > score]

\* C9: Grade monotonicity.  For scores s1 <= s2 the grade of s1 is never a
\* higher tier than the grade of s2, for HabitatGrade.from_score and for
\* get_grade, and for a score of 0 or more each returns the first tier in
\* descending-threshold order whose minimum is at most the score.
C9_GradeMonotone ==
    grades.returned =>
        /\ \A f \in {"from_score", "get_grade"} :
              /\ scores[1] <= scores[2] =>
                    TierRank(grades.value[f][1]) >= TierRank(grades.value[f][2])
              /\ \A k \in 1..2 :
                    scores[k] >= 0 => grades.value[f][k] = FirstTier(scores[k])

\* Two scores on either side of a threshold were graded into different tiers.
C9_Witness ==
    /\ grades.returned
    /\ scores[1] < scores[2]
    /\ scores[2] = Pt(90)
    /\ grades.value["from_score"] = <<"A", "A+">>
    /\ grades.value["get_grade"] = <<"A", "A+">>

(***************************************************************************)
(* Claims about score_property, checked under SpecScore.                   *)
(***************************************************************************)
\* C8: Score bounds.  final_score lies within [0, 100] and is the sum of the
\* four category totals and the impervious penalty, limited to [0, 100].
C8_ScoreBounds ==
    breakdown.returned =>
        LET b == breakdown.value
            sum == b.floral_score + b.nesting_score + b.connectivity_score
                   + b.management_score + b.impervious_penalty
        IN  /\ 0 <= b.final_score
            /\ b.final_score <= Pt(100)
            /\ b.final_score = (IF sum < 0 THEN 0 ELSE IF sum > Pt(100) THEN Pt(100) ELSE sum)
            /\ b.raw_score = sum - b.impervious_penalty

\* A property whose penalty exceeds its category totals was scored 0.
C8_Witness ==
    /\ breakdown.returned
    /\ breakdown.value.raw_score + breakdown.value.impervious_penalty < 0
    /\ breakdown.value.final_score = 0

\* C10: Scenario A.  The default PropertyData scores floral 0, nesting 0,
\* connectivity 10, management 8, impervious penalty -2.8, raw 18, final
\* 15.2, grade F, data completeness 0% and confidence low.
C10_EmptyYard ==
    (breakdown.returned /\ prop = DefaultProperty) =>
        LET b == breakdown.value
        IN  /\ b.floral_score = 0
            /\ b.nesting_score = 0
            /\ b.connectivity_score = Pt(10)
            /\ b.management_score = Pt(8)
            /\ b.impervious_penalty = 0 - 280
            /\ b.raw_score = Pt(18)
            /\ b.final_score = 1520
            /\ b.grade = "F"
            /\ b.data_completeness = 0
            /\ b.confidence = "low"

\* The default PropertyData has been scored.
C10_Witness == breakdown.returned /\ prop = DefaultProperty


\* The PropertyData of scenario B: one native milkweed plant (count 1) that
\* blooms in summer, 60% impervious surface, all else default.
HighImpervious ==
    [DefaultProperty EXCEPT !.plants = MilkweedOnly, !.impervious_surface_pct = 60]

\* C11: Scenario B (high impervious).  score_property on that PropertyData
\* yields floral 7 (diversity 2, summer 2, milkweed bonus 3), nesting 0,
\* connectivity 10, management 15, impervious penalty -10 (the cap), raw 32,
\* final 22 and grade F.
C11_HighImpervious ==
    (breakdown.returned /\ prop = HighImpervious) =>
        LET b == breakdown.value
        IN  /\ b.floral_score = Pt(7)
            /\ b.floral_diversity = Pt(2)
            /\ b.floral_summer = Pt(2)
            /\ b.floral_milkweed_bonus = Pt(3)
            /\ b.nesting_score = 0
            /\ b.connectivity_score = Pt(10)
            /\ b.management_score = Pt(15)
            /\ b.impervious_penalty = 0 - Pt(10)
            /\ b.raw_score = Pt(32)
            /\ b.final_score = Pt(22)
            /\ b.grade = "F"

\* The PropertyData of scenario B has been scored.
C11_Witness == breakdown.returned /\ prop = HighImpervious


(***************************************************************************)
(* Claims about the registries, checked under SpecRegistry.                *)
(***************************************************************************)
\* A registration of obj under name is last-write-wins: afterwards the name
\* maps to obj, every other name maps to what it did, the keys are those of
\* before and the name, each once, and the names bound before keep their
\* places.
LastWriteWins(before, after, name, obj, names) ==
    /\ RegistryGet(after, name) = obj
    /\ \A m \in names \ {name} : RegistryGet(after, m) = RegistryGet(before, m)
    /\ {after[i].name : i \in 1..Len(after)} =
          {before[i].name : i \in 1..Len(before)} \cup {name}
    /\ \A i, j \in 1..Len(after) : after[i].name = after[j].name => i = j
    /\ \A i \in 1..Len(before) : after[i].name = before[i].name

\* A listing holds each registered name exactly once and nothing else.
ListsOnce(listing, registry, names) ==
    /\ \A n \in names :
          Cardinality({i \in 1..Len(listing) : listing[i] = n}) =
              IF Registered(registry, n) THEN 1 ELSE 0
    /\ \A i \in 1..Len(listing) : listing[i] \in names

\* C12: registries are last-write-wins.  Every register_source and
\* register_algorithm step binds the name to the object registered, replacing
\* a prior binding without an error and touching no other name, so after any
\* sequence of registrations each name maps to the object registered under
\* it last; list_sources and list_algorithms hold each registered name
\* exactly once.
C12_LastWriteWins ==
    [][/\ last'.op = "register_source" =>
            /\ LastWriteWins(_sources, _sources', last'.key, last'.value, SourceNames)
            /\ last'.raised = NoneVal
            /\ _algorithms' = _algorithms
       /\ last'.op = "register_algorithm" =>
            /\ LastWriteWins(_algorithms, _algorithms', last'.key, last'.value,
                             AlgorithmNames)
            /\ last'.raised = NoneVal
            /\ _sources' = _sources
       /\ last'.op = "list_sources" =>
            ListsOnce(last'.value, _sources, SourceNames)
       /\ last'.op = "list_algorithms" =>
            ListsOnce(last'.value, _algorithms, AlgorithmNames)]_vars

\* "inat" was registered before "gbif" and has just been registered again,
\* with the object "mirror", which it now maps to.
C12_Witness ==
    /\ last.op = "register_source"
    /\ last.key = "inat"
    /\ last.value = "mirror"
    /\ _sources = <<[name |-> "inat", obj |-> "mirror"], [name |-> "gbif", obj |-> "live"]>>


(***************************************************************************)
(* Claims about fetch_data, checked under SpecFetch.                       *)
(***************************************************************************)
\* C13 as stated: every bundle fetch_data returns holds, under the key
\* "_location", the Location the call was made for.
C13_BundleHasLocation ==
    \A t \in Tasks :
        (calls[t].op = "fetch_data" /\ calls[t].pc = "done" /\ calls[t].outcome.returned) =>
            \E k \in 1..Len(calls[t].outcome.value) :
                LET entry == calls[t].outcome.value[k]
                IN  /\ entry.key = "_location"
                    /\ entry.type = "Location"
                    /\ entry.value = calls[t].locations[1]


(***************************************************************************)
(* Claims about Location, checked under SpecLocation.                      *)
(***************************************************************************)
\* The 3-decimal cell of a coordinate given in ten-thousandths: the number
\* it rounds to, in thousandths.
Cell(v) == IF v < 0 THEN 0 - Round3(v).mag ELSE Round3(v).mag

\* C14 as stated, for Locations constructed without a grid_hash argument:
\* the fingerprint of a Location is the function _compute_grid_hash of its
\* coordinates, and two Locations whose latitudes and longitudes round to
\* the same 3-decimal cell have equal fingerprints and so the same cache key
\* for a source.
C14_FingerprintDeterminism ==
    (locs.returned /\ coords[1][3] = "" /\ coords[2][3] = "") =>
        LET a == locs.value[1]
            b == locs.value[2]
        IN  /\ a.grid_hash = _compute_grid_hash(a.lat, a.lng)
            /\ (Cell(a.lat) = Cell(b.lat) /\ Cell(a.lng) = Cell(b.lng)) =>
                  /\ a.grid_hash = b.grid_hash
                  /\ _make_key("inat", a.grid_hash) = _make_key("inat", b.grid_hash)


\* The keys of a bundle whose entries are error records.
ErrorEntries(bundle) ==
    {bundle[k].key : k \in {n \in 1..Len(bundle) :
        bundle[n].type = "dict" /\ bundle[n].value \in ErrorRecords}}

\* The store c holds, at time t, an entry of the key that a get would return.
Fresh(c, key, t) ==
    KeyIndex(c, key) # 0 /\ t - c[KeyIndex(c, key)].timestamp < ttl_hours

\* The names a fetch_data call with these arguments visits.
Requested(f) ==
    IF f.sources.is_none \/ f.sources.names = <<>>
    THEN RegistryKeys(_sources)
    ELSE f.sources.names

\* The step ends the fetch_data call of task t.
EndsFetchData(t) ==
    /\ last'.op \in {"fetch_data", "fetch"}
    /\ last'.task = t
    /\ calls'[t].op = "fetch_data"
    /\ calls'[t].pc = "done"
    /\ calls'[t].outcome.returned

PayloadEntries(bundle) ==
    {bundle[k].key : k \in {n \in 1..Len(bundle) :
        bundle[n].type = "dict" /\ bundle[n].value \in Payloads}}

\* C19: in a fetch_data call of an engine whose cache has never hit, so that
\* every payload in the call's bundle is one the call wrote to the store,
\* a later visit of a name whose payload the bundle holds does not wait for
\* a fetch again, the return of a fetch does not overwrite the entry of a
\* name whose payload the bundle holds, and the store has one entry a key.
C19_FirstWriteWins ==
    [][\A t \in Tasks :
        (last'.op \in {"fetch_data", "fetch"} /\ last'.task = t
            /\ calls'[t].op = "fetch_data" /\ stats'.hits = 0) =>
            /\ calls'[t].pc = "await" =>
                  calls'[t].names[calls'[t].i] \notin PayloadEntries(calls'[t].data)
            /\ (last'.op = "fetch" /\ last'.raised = NoneVal
                    /\ calls[t].names[calls[t].i] \in PayloadEntries(calls[t].data)) =>
                  /\ KeyIndex(cache, last'.key) # 0
                  /\ KeyIndex(cache', last'.key) # 0
                  /\ cache'[KeyIndex(cache', last'.key)] = cache[KeyIndex(cache, last'.key)]
            /\ \A a, b \in 1..Len(cache') : cache'[a].key = cache'[b].key => a = b]_vars


\* The position of a registered name in the registry's order.
RegistryIndex(registry, name) ==
    CHOOSE k \in 1..Len(registry) : registry[k].name = name

\* The names of a bundle's entries that a source filled, by a payload or by
\* an error record.
VisitedEntries(bundle) ==
    {bundle[k].key : k \in {n \in 1..Len(bundle) : bundle[n].type = "dict"}}

\* C20: fetch_data visits the requested names in the order the sources were
\* registered: while a call waits for the fetch of a source, every requested
\* source that was registered before it has its entry in the call's bundle.
C20_RegistryOrder ==
    \A t \in Tasks :
        (calls[t].op = "fetch_data" /\ calls[t].pc = "await") =>
            LET f == calls[t]
            IN  \A k \in 1..Len(f.names) :
                    (/\ Registered(_sources, f.names[k])
                     /\ RegistryIndex(_sources, f.names[k])
                            < RegistryIndex(_sources, f.names[f.i])) =>
                        f.names[k] \in VisitedEntries(f.data)


\* The bundle a fetch_data call holds: its data while it runs, the value it
\* returned once it has ended.
BundleOf(f) ==
    IF f.pc = "done" THEN (IF f.outcome.returned THEN f.outcome.value ELSE <<>>)
    ELSE f.data

\* The names of a list that are registered, in the list's order.
RegisteredOnly(names) ==
    LET IsRegistered(n) == Registered(_sources, n)
    IN  SelectSeq(names, IsRegistered)

\* C21: a requested name that is not registered is skipped silently.  The
\* bundle of a fetch_data call never has a key for it, the call never waits
\* for a fetch of it and does not end by raising; and the step that begins a
\* call whose list holds such names leaves the store, the counters, the
\* bundle and the fetch awaited as the same call without those names does
\* (when no requested name is registered: store and counters unchanged, and
\* the bundle returned holds only the Location).
C21_UnregisteredSkipped ==
    [][\A t \in Tasks :
        calls'[t].op = "fetch_data" =>
            LET g == calls'[t]
                kept == RegisteredOnly(Requested(g))
                m == Run([frame |-> Frame("fetch_data", g.locations, SourceList(kept), NoneVal),
                          cache |-> cache, stats |-> stats],
                         _sources, _algorithms, ttl_hours, now)
            IN  /\ \A k \in BundleKeys(BundleOf(g)) \ {"_location"} : Registered(_sources, k)
                /\ g.pc = "await" => Registered(_sources, g.names[g.i])
                /\ ~HasRaised(g)
                /\ (last'.op = "fetch_data" /\ last'.task = t /\ kept # <<>>) =>
                      /\ cache' = m.cache
                      /\ stats' = m.stats
                      /\ g.pc = m.frame.pc
                      /\ BundleOf(g) = BundleOf(m.frame)
                      /\ g.pc = "await" => g.names[g.i] = m.frame.names[m.frame.i]
                /\ (last'.op = "fetch_data" /\ last'.task = t /\ kept = <<>>) =>
                      /\ cache' = cache
                      /\ stats' = stats
                      /\ g.pc = "done"
                      /\ BundleKeys(BundleOf(g)) = {"_location"}]_vars

\* A fetch_data call whose list begins with a name that is not registered
\* has returned a bundle with the payload of the registered name after it.
C21_Witness ==
    \E t \in Tasks :
        /\ calls[t].op = "fetch_data"
        /\ calls[t].pc = "done"
        /\ calls[t].outcome.returned
        /\ ~calls[t].sources.is_none
        /\ calls[t].sources.names = <<UnknownSource, "inat">>
        /\ BundleKeys(calls[t].outcome.value) = {"_location", "inat"}
        /\ stats.misses = 1



(***************************************************************************)
(* The model configuration against the scorer.                             *)
(***************************************************************************)
\* The points of the first tier of a table whose minimum the value reaches,
\* 0 when it reaches none.
RECURSIVE TierPoints(_, _)
TierPoints(tiers, value) ==
    IF tiers = <<>> THEN 0
    ELSE IF value >= Head(tiers).min THEN Head(tiers).points
    ELSE TierPoints(Tail(tiers), value)

\* The letter of the first grade threshold the score reaches, "F" below all.
RECURSIVE ConfigGrade(_, _)
ConfigGrade(thresholds, score) ==
    IF thresholds = <<>> THEN "F"
    ELSE IF score >= Head(thresholds).min THEN Head(thresholds).letter
    ELSE ConfigGrade(Tail(thresholds), score)

ConfigGround(data) ==
    IF data.has_bare_ground THEN TierPoints(ground_tiers, data.bare_ground_sqft) ELSE 0

ConfigUndisturbed(data) ==
    Min((IF data.leaves_stems_over_winter THEN leaves_winter_points ELSE 0)
        + (IF data.mowing_frequency \in DOMAIN mowing_points
           THEN mowing_points[data.mowing_frequency] ELSE 0)
        + (IF data.has_brush_pile THEN leaf_litter_points ELSE 0),
        Pt(10))

ConfigConnectivity(data) ==
    LET c == score_connectivity(data)
    IN  Min(TierPoints(neighbor_tiers, data.neighbors_in_program)
            + c.green_space + c.pioneer_bonus, Pt(20))

ConfigPenalty(data) ==
    IF data.impervious_surface_pct <= impervious_config.threshold_pct THEN 0
    ELSE 0 - Min((data.impervious_surface_pct - impervious_config.threshold_pct)
                    * impervious_config.penalty_per_pct,
                 impervious_config.max_penalty)

\* C17: for every input, the ground, undisturbed and connectivity sub-scores,
\* the impervious penalty and the grade that score_property returns are the
\* ones that the tables of the model configuration 2.0.0 give.
C17_ConfigDrivesScores ==
    breakdown.returned =>
        /\ breakdown.value.nesting_ground = ConfigGround(prop)
        /\ breakdown.value.nesting_undisturbed = ConfigUndisturbed(prop)
        /\ breakdown.value.connectivity_score = ConfigConnectivity(prop)
        /\ breakdown.value.impervious_penalty = ConfigPenalty(prop)
        /\ breakdown.value.grade = ConfigGrade(grade_thresholds, breakdown.value.final_score)


(***************************************************************************)
(* The order of the recommendations.                                       *)
(***************************************************************************)
PriorityRank(priority) ==
    CASE priority = "critical" -> 1
      [] priority = "high" -> 2
      [] priority = "medium" -> 3

\* C18: for every input, no recommendation of a lower priority comes before
\* one of a higher priority in the list generate_recommendations returns.
C18_PriorityOrder ==
    breakdown.returned =>
        LET recs == breakdown.value.recommendations
        IN  \A i, j \in 1..Len(recs) :
                i < j => PriorityRank(recs[i].priority) <= PriorityRank(recs[j].priority)


(***************************************************************************)
(* The management score.                                                   *)
(***************************************************************************)
\* The credit of a pesticide frequency.
FrequencyCredit(frequency) ==
    CASE frequency = "never" -> Pt(8)
      [] frequency = "rarely" -> Pt(5)
      [] frequency = "sometimes" -> Pt(2)
      [] frequency = "often" -> 0

\* The tier of the proportion of native plants among the plants recorded.
NativeTier(plants) ==
    LET total == Len(plants)
        native == Cardinality({i \in 1..total : plants[i].is_native})
    IN  IF total = 0 THEN 0
        ELSE IF native * 5 >= total * 4 THEN Pt(7)
        ELSE IF native * 5 >= total * 3 THEN Pt(5)
        ELSE IF native * 5 >= total * 2 THEN Pt(3)
        ELSE IF native * 5 >= total THEN Pt(1)
        ELSE 0

\* C22: for every PropertyData the management score is the credit
\* of the pesticide frequency (never 8, rarely 5, sometimes 2, often 0),
\* whatever uses_pesticides is, plus the native-proportion tier.
C22_FrequencyDeterminesCredit ==
    breakdown.returned =>
        breakdown.value.management_score
            = FrequencyCredit(prop.pesticide_frequency) + NativeTier(prop.plants)

(***************************************************************************)
(* The connectivity score.                                                 *)
(***************************************************************************)
PioneerBonus(neighbors) ==
    CASE neighbors = 0 -> Pt(8)
      [] neighbors \in 1..2 -> Pt(4)
      [] neighbors >= 3 -> 0

NeighborScore(neighbors) ==
    CASE neighbors = 0 -> 0
      [] neighbors \in 1..2 -> Pt(2 * neighbors)
      [] neighbors \in 3..4 -> Pt(7)
      [] neighbors >= 5 -> Pt(10)

GreenSpaceTier(pct) ==
    CASE pct >= 30 -> Pt(10)
      [] pct \in 20..29 -> Pt(7)
      [] pct \in 10..19 -> Pt(5)
      [] pct \in 5..9 -> Pt(3)
      [] pct < 5 -> Pt(2)

\* C23: for every property scored, the pioneer bonus is 8 for no neighbor, 4
\* for one or two and 0 for three or more, and is no greater than that of
\* any smaller neighbor count; the neighbor score is 0, twice the count,
\* 7 and 10 for 0, 1-2, 3-4 and 5 or more neighbors; the green-space tier
\* is 10/7/5/3/2; and the connectivity score is their sum capped at 20.
C23_Connectivity ==
    breakdown.returned =>
        LET c == score_connectivity(prop)
            n == prop.neighbors_in_program
        IN  /\ c.pioneer_bonus = PioneerBonus(n)
            /\ \A fewer \in 0..n :
                   score_connectivity([prop EXCEPT !.neighbors_in_program = fewer]).pioneer_bonus
                       >= c.pioneer_bonus
            /\ c.neighbors = NeighborScore(n)
            /\ c.green_space = GreenSpaceTier(prop.green_space_within_500m)
            /\ c.total = Min(c.pioneer_bonus + c.neighbors + c.green_space, Pt(20))
            /\ breakdown.value.connectivity_score
                   = Min(PioneerBonus(n) + NeighborScore(n)
                            + GreenSpaceTier(prop.green_space_within_500m), Pt(20))

\* A property with three neighbors and the most green space has been scored:
\* no pioneer bonus, 7 for the neighbors, 10 for the green space.
C23_Witness ==
    /\ breakdown.returned
    /\ prop.neighbors_in_program = 3
    /\ prop.green_space_within_500m = 30
    /\ breakdown.value.connectivity_score = Pt(17)


(***************************************************************************)
(* The triggers of the recommendations.                                    *)
(***************************************************************************)
\* The titles of the recommendations of a priority in a list.
Titles(recs, priority) ==
    {recs[i].title : i \in {k \in 1..Len(recs) : recs[k].priority = priority}}

NoFallBloom(data) ==
    \A i \in 1..Len(data.plants) : "fall" \notin data.plants[i].bloom_seasons

NoMilkweed(data) ==
    \A i \in 1..Len(data.plants) : ~data.plants[i].is_milkweed

\* C24 as stated: for every input, a property without bare ground gets the
\* ground-nesting recommendation, one without milkweed the host-plant
\* recommendation and one without a fall-blooming plant the critical
\* recommendation, whatever the other inputs and category scores are.
C24_TriggersIndependent ==
    breakdown.returned =>
        LET recs == breakdown.value.recommendations
        IN  /\ ~prop.has_bare_ground => "Ground Nesting Habitat" \in Titles(recs, "medium")
            /\ NoMilkweed(prop) => "Missing Host Plant" \in Titles(recs, "high")
            /\ NoFallBloom(prop) => "September Nectar Gap" \in Titles(recs, "critical")

\* C24 as amended: the critical recommendation is emitted exactly when no
\* plant blooms in fall and the host-plant recommendation exactly when no
\* plant is milkweed, whatever the other inputs are; the ground-nesting
\* recommendation is emitted exactly when has_bare_ground is false and the
\* nesting score is below 15, and the overwintering recommendation exactly
\* when leaves_stems_over_winter is false and the nesting score is below 15.
C24_TriggersGatedByNesting ==
    breakdown.returned =>
        LET recs == breakdown.value.recommendations
            low == breakdown.value.nesting_score < Pt(15)
        IN  /\ NoFallBloom(prop) <=> "September Nectar Gap" \in Titles(recs, "critical")
            /\ NoMilkweed(prop) <=> "Missing Host Plant" \in Titles(recs, "high")
            /\ (~prop.has_bare_ground /\ low)
                    <=> "Ground Nesting Habitat" \in Titles(recs, "medium")
            /\ (~prop.leaves_stems_over_winter /\ low)
                    <=> "Overwintering Habitat" \in Titles(recs, "medium")

\* A property without bare ground whose nesting score is 15 or more has been
\* scored: it has the critical and host-plant recommendations, not the
\* ground-nesting one.
C24_Witness ==
    /\ breakdown.returned
    /\ ~prop.has_bare_ground
    /\ breakdown.value.nesting_score >= Pt(15)
    /\ "September Nectar Gap" \in Titles(breakdown.value.recommendations, "critical")
    /\ "Missing Host Plant" \in Titles(breakdown.value.recommendations, "high")
    /\ "Ground Nesting Habitat" \notin Titles(breakdown.value.recommendations, "medium")


(***************************************************************************)
(* The bounds of the category scores.                                      *)
(***************************************************************************)
\* C25: for every property scored, each category score lies between 0 and
\* its maximum, 35 for floral (with at most 12 for diversity), 30 for
\* nesting (with at most 10 each for ground, cavity and undisturbed), 20 for
\* connectivity and 15 for management; the maxima are the component weights
\* of model 2.0.0, which sum to 100.
C25_CategoryBounds ==
    breakdown.returned =>
        LET b == breakdown.value
        IN  /\ 0 <= b.floral_score /\ b.floral_score <= Pt(35)
            /\ 0 <= b.floral_score /\ b.floral_score <= Pt(weights.floral)
            /\ b.nesting_score <= Pt(weights.nesting)
            /\ b.connectivity_score <= Pt(weights.connectivity)
            /\ b.management_score <= Pt(weights.management)
            /\ 0 <= b.floral_diversity /\ b.floral_diversity <= Pt(12)
            /\ 0 <= b.nesting_score /\ b.nesting_score <= Pt(30)
            /\ \A part \in {b.nesting_ground, b.nesting_cavity, b.nesting_undisturbed} :
                   0 <= part /\ part <= Pt(10)
            /\ 0 <= b.connectivity_score /\ b.connectivity_score <= Pt(20)
            /\ 0 <= b.management_score /\ b.management_score <= Pt(15)
            /\ weights = [floral |-> 35, nesting |-> 30, connectivity |-> 20,
                          management |-> 15]
            /\ weights.floral + weights.nesting + weights.connectivity
                    + weights.management = 100

\* A property of ten native species and non-native ones besides has been
\* scored: the diversity points stand at their maximum of 12.
C25_Witness ==
    /\ breakdown.returned
    /\ NativeCount(prop.plants) = 10
    /\ Len(prop.plants) > 10
    /\ breakdown.value.floral_diversity = Pt(12)

\* Every category has been scored at its maximum.
C25_AllMaxima ==
    /\ breakdown.returned
    /\ breakdown.value.floral_score = Pt(35)
    /\ breakdown.value.nesting_score = Pt(30)
    /\ breakdown.value.connectivity_score = Pt(20)
    /\ breakdown.value.management_score = Pt(15)




(***************************************************************************)
(* Claims about interleaved fetch_data calls, checked under SpecOverlap.   *)
(***************************************************************************)
\* C26: in every reachable state of an engine with max_entries >= 1 whose
\* cache is written by interleaved fetch_data calls and cleared, the store
\* holds at most max_entries entries and at most one entry for a key.
C26_BoundedStore ==
    max_entries >= 1 =>
        /\ Len(cache) <= max_entries
        /\ \A a, b \in 1..Len(cache) : cache[a].key = cache[b].key => a = b

\* While one task waits for a fetch, the write of the other task's call
\* has evicted an entry from a store of one entry, which is full again.
C26_Witness ==
    /\ max_entries = 1
    /\ Len(cache) = 1
    /\ stats.evictions >= 1
    /\ last.op = "fetch"
    /\ \E t \in OverlapTasks : calls[t].pc = "await" /\ last.task # t


\* The cache key of the fetch a call waits for.
AwaitedKey(f) == _make_key(f.names[f.i], f.locations[f.j].grid_hash)

\* C27: fetch_data calls for the same location and source that overlap are
\* not coalesced.  A call that comes to wait for a fetch of a key while the
\* other task waits for a fetch of the same key has missed the cache for it
\* and leaves the other call waiting; when the fetch of one of two such
\* calls returns, the write succeeds whatever the store held for the key,
\* the other call still waits for its own fetch, and the store then holds
\* exactly one entry for the key, with the payload and the time of this
\* write, the last one.
C27_OverlapNotCoalesced ==
    [][\A t, u \in OverlapTasks :
        (t # u /\ last'.op \in {"fetch_data", "fetch"} /\ last'.task = t) =>
            /\ (calls'[t].pc = "await" /\ calls[u].pc = "await"
                    /\ AwaitedKey(calls'[t]) = AwaitedKey(calls[u])) =>
                  /\ stats'.misses > stats.misses
                  /\ calls'[u] = calls[u]
            /\ (last'.op = "fetch" /\ last'.raised = NoneVal /\ calls[u].pc = "await"
                    /\ AwaitedKey(calls[u]) = last'.key) =>
                  /\ calls'[u] = calls[u]
                  /\ Cardinality({k \in 1..Len(cache') : cache'[k].key = last'.key}) = 1
                  /\ cache'[KeyIndex(cache', last'.key)].data = last'.value
                  /\ cache'[KeyIndex(cache', last'.key)].timestamp = now
            /\ (last'.op = "fetch" /\ last'.raised = NoneVal
                    /\ KeyIndex(cache, last'.key) # 0) =>
                  /\ Cardinality({k \in 1..Len(cache') : cache'[k].key = last'.key}) = 1
                  /\ cache'[KeyIndex(cache', last'.key)].data = last'.value
                  /\ cache'[KeyIndex(cache', last'.key)].timestamp = now]_vars

\* Both tasks looked up the same key before either fetch returned: the
\* first fetch has returned and its payload is in the store at an age
\* within the ttl, while the other task, which would have hit had it looked
\* up afterwards, still waits for its own fetch of the key.
C27_Witness ==
    \E t, u \in OverlapTasks :
        /\ t # u
        /\ last.op = "fetch"
        /\ last.task = t
        /\ last.raised = NoneVal
        /\ calls[u].pc = "await"
        /\ AwaitedKey(calls[u]) = last.key
        /\ Fresh(cache, last.key, now)
        /\ now = 0
        /\ stats.hits = 0
        /\ stats.misses >= 2

\* The fetches of two calls for one key have both returned, the second
\* after the first: the store's entry carries the second payload, and the
\* bundle of the call that was served first still holds the first.
C27_SecondWriteWins ==
    \E t, u \in OverlapTasks :
        /\ t # u
        /\ last.op = "fetch"
        /\ last.task = t
        /\ last.raised = NoneVal
        /\ last.value = "p2"
        /\ Len(cache) = 1
        /\ cache[1].key = last.key
        /\ cache[1].data = "p2"
        /\ calls[u].pc = "done"
        /\ calls[u].outcome.returned
        /\ BundleGet(calls[u].outcome.value, "inat") = "p1"
        /\ calls[t].pc = "done"
        /\ now = 0
        /\ stats.hits = 0
        /\ stats.misses = 2


(***************************************************************************)
(* Reads of the cache, checked under SpecReads.                            *)
(***************************************************************************)
\* C28: a get that returns a payload leaves the store as it was, payloads
\* and write timestamps included, and adds one to hits and to nothing else;
\* whether a get of a key in the store returns its payload depends on the
\* time since the entry was written alone, however often it was read; and a
\* set that evicts removes an entry whose write timestamp no other entry's
\* is below.
C28_HitLeavesStore ==
    [][/\ (last'.op = "get" /\ last'.value # NoneVal) =>
              /\ cache' = cache
              /\ stats' = [stats EXCEPT !.hits = @ + 1]
       /\ (last'.op = "get" /\ last'.had) =>
              LET entry == cache[KeyIndex(cache, last'.key)]
              IN  IF now - entry.timestamp < ttl_hours
                  THEN last'.value = entry.data
                  ELSE last'.value = NoneVal /\ KeyIndex(cache', last'.key) = 0
       /\ (last'.op = "set" /\ stats'.evictions > stats.evictions) =>
              \E i \in 1..Len(cache) :
                  /\ \A j \in 1..Len(cache) : cache[i].timestamp <= cache[j].timestamp
                  /\ \A k \in 1..Len(cache') :
                         cache'[k].key # last'.key =>
                             \E j \in 1..Len(cache) : j # i /\ cache'[k] = cache[j]]_vars

\* An entry written earlier has been read for the second time: both reads
\* hit, and the entry still carries the time of its write.
C28_Witness ==
    /\ last.op = "get"
    /\ last.value \in Payloads
    /\ stats.hits = 2
    /\ cache[KeyIndex(cache, last.key)].timestamp < now

\* An entry that was read and hit has expired: at ttl after its write a get
\* misses and removes it.
C28_ReadEntryExpires ==
    /\ last.op = "get"
    /\ last.had
    /\ last.value = NoneVal
    /\ stats.hits = 1
    /\ stats.misses = 1
    /\ cache = <<>>
    /\ stats.evictions = 0


\* C29: a score call whose algorithm name is not registered ends at once by
\* raising ValueError: it waits for no fetch, the store and the hits,
\* misses and evictions counters are after the call what they were before
\* it, and the call of the other task is as it was.
C29_UnknownAlgorithmFrame ==
    [][\A t \in OverlapTasks :
        (last'.op = "score" /\ last'.task = t
            /\ ~Registered(_algorithms, calls'[t].algorithm)) =>
            /\ HasRaised(calls'[t])
            /\ calls'[t].outcome.raised = "ValueError"
            /\ cache' = cache
            /\ stats' = stats
            /\ \A u \in OverlapTasks \ {t} : calls'[u] = calls[u]]_vars

\* A score call with an unknown algorithm name has failed on an engine whose
\* store holds an entry and whose other task waits for a fetch.
C29_Witness ==
    \E t, u \in OverlapTasks :
        /\ last.op = "score"
        /\ last.task = t
        /\ HasRaised(calls[t])
        /\ calls[t].algorithm = UnknownAlgorithm
        /\ Len(cache) >= 1
        /\ stats.misses >= 1
        /\ calls[u].pc = "await"


(***************************************************************************)
(* The sources argument of fetch_data, checked under SpecFetch.            *)
(***************************************************************************)
\* C30: a fetch_data call with an empty list of sources does what the call
\* with no sources argument does: the step that begins it leaves the store,
\* the counters, the names to visit, the bundle and the fetch awaited as
\* the call without the argument does, so that with a source registered
\* the call looks the cache up and does not return a bundle of the
\* Location alone.
C30_EmptyListIsAll ==
    [][\A t \in Tasks :
        (last'.op = "fetch_data" /\ last'.task = t
            /\ ~calls'[t].sources.is_none /\ calls'[t].sources.names = <<>>) =>
            LET g == calls'[t]
                m == Run([frame |-> Frame("fetch_data", g.locations, NoSources, NoneVal),
                          cache |-> cache, stats |-> stats],
                         _sources, _algorithms, ttl_hours, now)
            IN  /\ cache' = m.cache
                /\ stats' = m.stats
                /\ g.pc = m.frame.pc
                /\ g.names = m.frame.names
                /\ g.i = m.frame.i
                /\ BundleOf(g) = BundleOf(m.frame)
                /\ stats'.hits + stats'.misses > stats.hits + stats.misses
                /\ g.pc = "done" =>
                      BundleKeys(BundleOf(g))
                          = {"_location"} \cup {_sources[k].name : k \in 1..Len(_sources)}]_vars

\* fetch_data was called with an empty list on an engine with two sources:
\* the first was found in the cache and the second is being fetched.
C30_Witness ==
    \E t \in Tasks :
        /\ last.op = "fetch_data"
        /\ calls[t].op = "fetch_data"
        /\ ~calls[t].sources.is_none
        /\ calls[t].sources.names = <<>>
        /\ Len(_sources) = 2
        /\ calls[t].pc = "await"
        /\ calls[t].i = 2
        /\ stats.hits = 1

=============================================================================
